---- MODULE Spec2Model ----
(***************************************************************************)
(* License-expression engine of sbom-utility (schema/license_expression.go) *)
(* as a state machine: the recursive-descent parser CompoundExpression.Parse *)
(* run token by token over an explicit stack of open scopes, the two fold   *)
(* primitives and the usage-policy evaluator.                               *)
(*                                                                         *)
(* Abstractions: a CompoundExpression keeps the fields that decide the tree *)
(* and its usage policies; CompoundName and Urls (display data), LeftPolicy *)
(* and RightPolicy (whose UsagePolicy is mirrored in Left/RightUsagePolicy) *)
(* and SimpleRightHasPlus (never written) are left out.  A nil pointer is   *)
(* the empty sequence <<>>, a non-nil pointer the one-element sequence      *)
(* <<node>>.  A nil error is the empty string.                              *)
(*                                                                         *)
(* Two further state machines share the module: the walk of an SBOM's      *)
(* components that hashes their licenses (WalkerSpec), and a license       *)
(* finder with its cache and cache file (FinderSpec).  Each specification  *)
(* leaves the variables of the other two at their idle values.             *)
(***************************************************************************)
EXTENDS Integers, Sequences, FiniteSets, TLC

(* the expression parser *)
VARIABLES tokens, index, stack, err, pc

(* the SBOM walker *)
VARIABLES bom, frames, licenseMap, consulted, walkErr, walkPc

vars == <<tokens, index, stack, err, pc>>

(* a license finder: its cache in memory and on disk, the last call of     *)
(* FindLicenses and what the calls before it returned                      *)
VARIABLES finderKind, licenseCache, cacheFile, lastCall, lastOp,
          returned, atShutdown, carried

(* the license finder service: the caches and cache files of its finders   *)
(* and its last FindLicenses call                                          *)
VARIABLES serviceCaches, serviceFiles, serviceCall

(* one call of EvaluateUsagePolicies: the node, the CompoundUsagePolicy it  *)
(* held before the call and the error returned                             *)
VARIABLES evalNode, evalPrevious, evalErr

walkerVars == <<bom, frames, licenseMap, consulted, walkErr, walkPc>>

finderVars == <<finderKind, licenseCache, cacheFile, lastCall, lastOp,
                returned, atShutdown, carried>>

serviceVars == <<serviceCaches, serviceFiles, serviceCall>>

evaluatorVars == <<evalNode, evalPrevious, evalErr>>

(* the state outside the expression parser *)
nonParserVars == <<walkerVars, finderVars, serviceVars, evaluatorVars>>

(* the state outside the SBOM walker *)
nonWalkerVars == <<vars, finderVars, serviceVars, evaluatorVars>>

(* the state outside the license finder *)
nonFinderVars == <<vars, walkerVars, serviceVars, evaluatorVars>>

nonServiceVars == <<vars, walkerVars, finderVars, evaluatorVars>>

nonEvaluatorVars == <<vars, walkerVars, finderVars, serviceVars>>

(* no finder is in use *)
FinderIdle ==
    /\ finderKind = "none" /\ licenseCache = <<>> /\ cacheFile = <<>>
    /\ lastCall = <<>> /\ lastOp = "none"
    /\ returned = <<>> /\ atShutdown = <<>> /\ carried = <<>>

(* no node is evaluated on its own *)
EvaluatorIdle ==
    evalNode = <<>> /\ evalPrevious = <<>> /\ evalErr = ""

(* the service is not used *)
ServiceIdle ==
    serviceCaches = <<>> /\ serviceFiles = <<>> /\ serviceCall = <<>>

(* no document is walked *)
WalkerIdle ==
    /\ bom = <<>> /\ frames = <<>> /\ licenseMap = <<>>
    /\ consulted = <<>> /\ walkErr = "" /\ walkPc = "idle"

(***************************************************************************)
(* Bounds of the explored inputs                                           *)
(***************************************************************************)
MaxLen == 4

MaxOperands == 4

MaxGroupOperands == 2

MaxWF == 4

(* license choices of one component *)
MaxChoices == 3

(* components of a document *)
MaxComponents == 2

(* levels of components nested into one another *)
MaxNesting == 2

(* operands of an expression parsed with failing lookups *)
MaxLookupOperands == 3

(* parent POMs followed by one call of the Maven finder *)
MaxParents == 5

(* the depth after which FindLicensesInPom stops following parents *)
MAX_PARENT_PACKAGE_RECURSION_DEPTH == 5

(***************************************************************************)
(* Tokens, conjunctions and usage policies                                 *)
(***************************************************************************)
LEFT_PARENS == "("

RIGHT_PARENS == ")"

AND == "AND"

OR == "OR"

WITH_ == "WITH"

CONJUNCTION_UNDEFINED == ""

POLICY_ALLOW == "allow"

POLICY_DENY == "deny"

POLICY_NEEDS_REVIEW == "needs-review"

POLICY_UNDEFINED == "UNDEFINED"

Policies == {POLICY_ALLOW, POLICY_DENY, POLICY_NEEDS_REVIEW, POLICY_UNDEFINED}

Conjunctions == {AND, OR, WITH_}

NoError == ""

MSG_LICENSE_EXPRESSION_INVALID_CONJUNCTION == "invalid conjunction"

(* The policy store of the tests: one license id per usage policy; an id   *)
(* the store does not know resolves to the UNDEFINED policy.               *)
PolicyStore ==
    [t \in {"MIT", "GPL-2.0-only", "MPL-1.0"} |->
        CASE t = "MIT" -> POLICY_ALLOW
          [] t = "GPL-2.0-only" -> POLICY_DENY
          [] t = "MPL-1.0" -> POLICY_NEEDS_REVIEW]

Symbols == {"MIT", "GPL-2.0-only", "MPL-1.0", "FOO"}

(* the symbols for which the lookup of the policy store returns an error *)
FailingSymbols == {"BAD"}

MSG_LOOKUP_FAILED == "policy lookup failed"

(* findPolicy: the usage policy the store holds for the token; the named   *)
(* result is still the empty string when the lookup returns an error       *)
findPolicy(token) ==
    IF token \in FailingSymbols THEN ""
    ELSE IF token \in DOMAIN PolicyStore THEN PolicyStore[token] ELSE POLICY_UNDEFINED

(* findPolicy: the error returned with it *)
findPolicyErr(token) ==
    IF token \in FailingSymbols THEN MSG_LOOKUP_FAILED ELSE NoError

(* strings.ToUpper on the words of the alphabet: keywords match in any     *)
(* case, every other word falls to the default case of the switch          *)
ToUpper(token) ==
    CASE token = "and" -> AND
      [] token = "or" -> OR
      [] token = "with" -> WITH_
      [] token \in {LEFT_PARENS, RIGHT_PARENS, AND, OR, WITH_} -> token
      [] OTHER -> "SYMBOL"

(***************************************************************************)
(* CompoundExpression                                                      *)
(***************************************************************************)
(* variant: the struct as new() leaves it, the policies not initialised *)
ZeroCompoundExpression ==
    [SimpleLeft |-> "", LeftUsagePolicy |-> "",
     SimpleRight |-> "", RightUsagePolicy |-> "",
     Conjunction |-> "", SubsequentConjunction |-> "",
     CompoundLeft |-> <<>>, CompoundRight |-> <<>>,
     CompoundUsagePolicy |-> ""]

NewCompoundExpression ==
    [SimpleLeft |-> "", LeftUsagePolicy |-> POLICY_UNDEFINED,
     SimpleRight |-> "", RightUsagePolicy |-> POLICY_UNDEFINED,
     Conjunction |-> CONJUNCTION_UNDEFINED, SubsequentConjunction |-> "",
     CompoundLeft |-> <<>>, CompoundRight |-> <<>>,
     CompoundUsagePolicy |-> POLICY_UNDEFINED]

(* every field but SubsequentConjunction is copied *)
CopyCompoundExpression(expression) ==
    [expression EXCEPT !.SubsequentConjunction = ""]

(***************************************************************************)
(* EvaluateUsagePolicies: the expression with CompoundUsagePolicy set, and  *)
(* the error returned                                                      *)
(***************************************************************************)
(* variant: an Undefined side makes AND Undefined, a Deny on the other side *)
(* is not looked at                                                        *)
EvaluateAND_UndefinedFirst(l, r) ==
    IF l = POLICY_UNDEFINED \/ r = POLICY_UNDEFINED THEN POLICY_UNDEFINED
    ELSE IF l = POLICY_DENY \/ r = POLICY_DENY THEN POLICY_DENY
    ELSE IF l = POLICY_NEEDS_REVIEW \/ r = POLICY_NEEDS_REVIEW THEN POLICY_NEEDS_REVIEW
    ELSE POLICY_ALLOW

EvaluateAND(l, r) ==
    IF l = POLICY_UNDEFINED \/ r = POLICY_UNDEFINED
    THEN IF l = POLICY_DENY \/ r = POLICY_DENY THEN POLICY_DENY ELSE POLICY_UNDEFINED
    ELSE IF l = POLICY_DENY \/ r = POLICY_DENY THEN POLICY_DENY
    ELSE IF l = POLICY_NEEDS_REVIEW \/ r = POLICY_NEEDS_REVIEW THEN POLICY_NEEDS_REVIEW
    ELSE POLICY_ALLOW

(* variant: OR looks for Deny before NeedsReview, as AND does *)
EvaluateOR_DenyBeforeReview(l, r) ==
    IF l = POLICY_UNDEFINED THEN r
    ELSE IF r = POLICY_UNDEFINED THEN l
    ELSE IF l = POLICY_ALLOW \/ r = POLICY_ALLOW THEN POLICY_ALLOW
    ELSE IF l = POLICY_DENY \/ r = POLICY_DENY THEN POLICY_DENY
    ELSE POLICY_NEEDS_REVIEW

EvaluateOR(l, r) ==
    IF l = POLICY_UNDEFINED THEN r
    ELSE IF r = POLICY_UNDEFINED THEN l
    ELSE IF l = POLICY_ALLOW \/ r = POLICY_ALLOW THEN POLICY_ALLOW
    ELSE IF l = POLICY_NEEDS_REVIEW \/ r = POLICY_NEEDS_REVIEW THEN POLICY_NEEDS_REVIEW
    ELSE POLICY_DENY

(* variant: WITH decided by the left operand *)
EvaluateWITH_LeftDecides(l, r) ==
    IF l = POLICY_UNDEFINED THEN r
    ELSE IF r = POLICY_UNDEFINED THEN l
    ELSE IF l = POLICY_ALLOW THEN POLICY_ALLOW
    ELSE IF l = POLICY_NEEDS_REVIEW THEN POLICY_NEEDS_REVIEW
    ELSE POLICY_DENY

EvaluateWITH(l, r) ==
    IF l = POLICY_UNDEFINED THEN r
    ELSE IF r = POLICY_UNDEFINED THEN l
    ELSE IF r = POLICY_ALLOW THEN POLICY_ALLOW
    ELSE IF r = POLICY_NEEDS_REVIEW THEN POLICY_NEEDS_REVIEW
    ELSE POLICY_DENY

(* variant: no case for a node without conjunction *)
EvaluateNoConjunction_Unhandled(l, r, previous) == previous

EvaluateNoConjunction(l, r, previous) ==
    IF l # POLICY_UNDEFINED /\ r = POLICY_UNDEFINED THEN l ELSE previous

(* variant: a conjunction whose left or right operand is missing is invalid *)
EvaluateUsagePolicies_MissingOperandIsError(expression) ==
    IF /\ expression.Conjunction \in Conjunctions
       /\ \/ expression.SimpleLeft = "" /\ expression.CompoundLeft = <<>>
          \/ expression.SimpleRight = "" /\ expression.CompoundRight = <<>>
    THEN [expr |-> [expression EXCEPT !.CompoundUsagePolicy = POLICY_UNDEFINED],
          err |-> MSG_LICENSE_EXPRESSION_INVALID_CONJUNCTION]
    ELSE LET l == expression.LeftUsagePolicy
             r == expression.RightUsagePolicy
             c == expression.Conjunction
             p == CASE c = AND -> EvaluateAND(l, r)
                    [] c = OR -> EvaluateOR(l, r)
                    [] c = WITH_ -> EvaluateWITH(l, r)
                    [] OTHER -> EvaluateNoConjunction(l, r, expression.CompoundUsagePolicy)
         IN  [expr |-> [expression EXCEPT !.CompoundUsagePolicy = p], err |-> NoError]

EvaluateUsagePolicies(expression) ==
    LET l == expression.LeftUsagePolicy
        r == expression.RightUsagePolicy
        c == expression.Conjunction
    IN  CASE c = AND ->
               [expr |-> [expression EXCEPT !.CompoundUsagePolicy = EvaluateAND(l, r)],
                err |-> NoError]
          [] c = OR ->
               [expr |-> [expression EXCEPT !.CompoundUsagePolicy = EvaluateOR(l, r)],
                err |-> NoError]
          [] c = WITH_ ->
               [expr |-> [expression EXCEPT !.CompoundUsagePolicy = EvaluateWITH(l, r)],
                err |-> NoError]
          [] c = CONJUNCTION_UNDEFINED ->
               [expr |-> [expression EXCEPT !.CompoundUsagePolicy =
                             EvaluateNoConjunction(l, r, expression.CompoundUsagePolicy)],
                err |-> NoError]
          [] OTHER ->
               [expr |-> [expression EXCEPT !.CompoundUsagePolicy = POLICY_UNDEFINED],
                err |-> MSG_LICENSE_EXPRESSION_INVALID_CONJUNCTION]

(***************************************************************************)
(* The two folds                                                           *)
(***************************************************************************)
FoldLeftAndAppendRight(expression, conjunction, token) ==
    LET childExpression == EvaluateUsagePolicies(CopyCompoundExpression(expression))
    IN  IF childExpression.err # NoError
        THEN expression
        ELSE [expression EXCEPT
                !.SimpleLeft = "",
                !.CompoundLeft = <<childExpression.expr>>,
                !.LeftUsagePolicy = childExpression.expr.CompoundUsagePolicy,
                !.Conjunction = conjunction,
                !.SimpleRight = token,
                !.RightUsagePolicy = findPolicy(token),
                !.SubsequentConjunction =
                    IF findPolicyErr(token) # NoError
                    THEN expression.SubsequentConjunction ELSE ""]

FoldAndAppendRight(expression, conjunction, token) ==
    LET childExpression ==
            EvaluateUsagePolicies(
                [NewCompoundExpression EXCEPT
                    !.SimpleLeft = expression.SimpleRight,
                    !.CompoundLeft = expression.CompoundRight,
                    !.LeftUsagePolicy = expression.RightUsagePolicy,
                    !.Conjunction = conjunction,
                    !.SimpleRight = token,
                    !.RightUsagePolicy = findPolicy(token)])
    IN  IF findPolicyErr(token) # NoError \/ childExpression.err # NoError
        THEN expression
        ELSE [expression EXCEPT
                !.SimpleRight = "",
                !.CompoundRight = <<childExpression.expr>>,
                !.RightUsagePolicy = childExpression.expr.CompoundUsagePolicy,
                !.SubsequentConjunction = ""]

(***************************************************************************)
(* The cases of the token switch of Parse                                  *)
(***************************************************************************)
(* variant: a group on the right is linked but its policy is not copied *)
AttachChild_RightPolicyNotCopied(expression, childExpression) ==
    IF expression.Conjunction = ""
    THEN [expression EXCEPT
            !.CompoundLeft = <<childExpression>>,
            !.LeftUsagePolicy = childExpression.CompoundUsagePolicy]
    ELSE [expression EXCEPT !.CompoundRight = <<childExpression>>]

(* LEFT_PARENS, after the recursive call returned childExpression *)
AttachChild(expression, childExpression) ==
    IF expression.Conjunction = ""
    THEN [expression EXCEPT
            !.CompoundLeft = <<childExpression>>,
            !.LeftUsagePolicy = childExpression.CompoundUsagePolicy]
    ELSE [expression EXCEPT
            !.CompoundRight = <<childExpression>>,
            !.RightUsagePolicy = childExpression.CompoundUsagePolicy]

(* variant: a conjunction met before any left operand is dropped *)
ParseConjunction_LeadingIgnored(expression, conjunction) ==
    IF expression.SimpleLeft = "" /\ expression.CompoundLeft = <<>>
    THEN expression
    ELSE IF expression.Conjunction = ""
    THEN [expression EXCEPT !.Conjunction = conjunction]
    ELSE [expression EXCEPT !.SubsequentConjunction = conjunction]

(* AND, OR, WITH *)
ParseConjunction(expression, conjunction) ==
    IF expression.Conjunction = ""
    THEN [expression EXCEPT !.Conjunction = conjunction]
    ELSE [expression EXCEPT !.SubsequentConjunction = conjunction]

(* variant: WITH after WITH is kept as WITH in the folded right pair *)
FoldThirdOperand_WithKept(expression, token) ==
    LET c1 == expression.Conjunction
        c2 == expression.SubsequentConjunction
    IN  CASE c1 = AND /\ c2 = AND -> FoldLeftAndAppendRight(expression, AND, token)
          [] c1 = AND /\ c2 = OR -> FoldLeftAndAppendRight(expression, OR, token)
          [] c1 = AND /\ c2 = WITH_ -> FoldAndAppendRight(expression, WITH_, token)
          [] c1 = OR /\ c2 = AND -> FoldAndAppendRight(expression, AND, token)
          [] c1 = OR /\ c2 = OR -> FoldAndAppendRight(expression, OR, token)
          [] c1 = OR /\ c2 = WITH_ -> FoldAndAppendRight(expression, WITH_, token)
          [] c1 = WITH_ /\ c2 = AND -> FoldLeftAndAppendRight(expression, AND, token)
          [] c1 = WITH_ /\ c2 = OR -> FoldLeftAndAppendRight(expression, OR, token)
          [] c1 = WITH_ /\ c2 = WITH_ -> FoldAndAppendRight(expression, WITH_, token)
          [] OTHER -> expression

(* the fold chosen for a third operand *)
FoldThirdOperand(expression, token) ==
    LET c1 == expression.Conjunction
        c2 == expression.SubsequentConjunction
    IN  CASE c1 = AND /\ c2 = AND -> FoldLeftAndAppendRight(expression, AND, token)
          [] c1 = AND /\ c2 = OR -> FoldLeftAndAppendRight(expression, OR, token)
          [] c1 = AND /\ c2 = WITH_ -> FoldAndAppendRight(expression, WITH_, token)
          [] c1 = OR /\ c2 = AND -> FoldAndAppendRight(expression, AND, token)
          [] c1 = OR /\ c2 = OR -> FoldAndAppendRight(expression, OR, token)
          [] c1 = OR /\ c2 = WITH_ -> FoldAndAppendRight(expression, WITH_, token)
          [] c1 = WITH_ /\ c2 = AND -> FoldLeftAndAppendRight(expression, AND, token)
          [] c1 = WITH_ /\ c2 = OR -> FoldLeftAndAppendRight(expression, OR, token)
          [] c1 = WITH_ /\ c2 = WITH_ -> FoldAndAppendRight(expression, OR, token)
          [] OTHER -> expression

(* default: a simple expression *)
ParseSimple(expression, token) ==
    IF expression.Conjunction = CONJUNCTION_UNDEFINED
    THEN [expression EXCEPT
            !.SimpleLeft = token,
            !.LeftUsagePolicy = findPolicy(token)]
    ELSE IF expression.SubsequentConjunction = ""
    THEN [expression EXCEPT
            !.SimpleRight = token,
            !.RightUsagePolicy = findPolicy(token)]
    ELSE FoldThirdOperand(expression, token)

(* default: the error Parse returns; the error of a fold is dropped *)
ParseSimpleErr(expression, token) ==
    IF expression.Conjunction = CONJUNCTION_UNDEFINED
          \/ expression.SubsequentConjunction = ""
    THEN findPolicyErr(token)
    ELSE NoError

(***************************************************************************)
(* Parse as the recursive function of the source: the expression, the      *)
(* index returned and the error                                            *)
(***************************************************************************)
RECURSIVE Parse(_, _, _)
Parse(expression, toks, idx) ==
    IF idx >= Len(toks)
    THEN LET ev == EvaluateUsagePolicies(expression)
         IN  [expr |-> ev.expr, index |-> idx, err |-> ev.err]
    ELSE LET token == toks[idx + 1]
             upper == ToUpper(token)
         IN  CASE upper = LEFT_PARENS ->
                    LET child == Parse(NewCompoundExpression, toks, idx + 1)
                    IN  IF child.err # NoError
                        THEN [expr |-> expression, index |-> 0, err |-> child.err]
                        ELSE Parse(AttachChild(expression, child.expr), toks, child.index + 1)
               [] upper = RIGHT_PARENS ->
                    LET ev == EvaluateUsagePolicies(expression)
                    IN  [expr |-> ev.expr, index |-> idx, err |-> ev.err]
               [] upper \in Conjunctions ->
                    Parse(ParseConjunction(expression, upper), toks, idx + 1)
               [] OTHER ->
                    IF ParseSimpleErr(expression, token) # NoError
                    THEN [expr |-> ParseSimple(expression, token), index |-> 0,
                          err |-> ParseSimpleErr(expression, token)]
                    ELSE Parse(ParseSimple(expression, token), toks, idx + 1)

ParseExpression(toks) == Parse(NewCompoundExpression, toks, 0)

(***************************************************************************)
(* Inputs: token lists as tokenizeExpression produces them                 *)
(***************************************************************************)
Alphabet == {LEFT_PARENS, RIGHT_PARENS, AND, OR, WITH_, "or"} \cup Symbols

(* operand (conjunction operand)*, exactly k operands *)
FlatExprs(S, C, k) ==
    {[i \in 1..(2 * k - 1) |-> IF i % 2 = 1 THEN operands[(i + 1) \div 2]
                                             ELSE conjunctions[i \div 2]] :
        operands \in [1..k -> S], conjunctions \in [1..(k - 1) -> C]}

(* the expressions of the grammar  expr := term (CONJ term)*,              *)
(* term := SYM | ( expr )  with exactly n tokens                           *)
RECURSIVE GrammarExprs(_, _), GrammarTerms(_, _)
GrammarTerms(S, n) ==
    IF n = 1 THEN {<<s>> : s \in S}
    ELSE IF n >= 3 THEN {<<LEFT_PARENS>> \o e \o <<RIGHT_PARENS>> : e \in GrammarExprs(S, n - 2)}
    ELSE {}

GrammarExprs(S, n) ==
    IF n < 1 THEN {}
    ELSE GrammarTerms(S, n) \cup
         UNION {{t \o <<c>> \o e : t \in GrammarTerms(S, k), c \in Conjunctions,
                                   e \in GrammarExprs(S, n - k - 1)} : k \in 1..(n - 2)}

(* L c1 R c2 ( group ): a parenthesized group of k operands in third      *)
(* position                                                                *)
GroupThirdInputs(k) ==
    {<<l, c1, r, c2, LEFT_PARENS>> \o g \o <<RIGHT_PARENS>> :
        l \in Symbols, c1 \in Conjunctions, r \in Symbols, c2 \in Conjunctions,
        g \in FlatExprs(Symbols, {AND, OR}, k)}

(***************************************************************************)
(* The parser as a state machine: stack holds the expression of every open *)
(* Parse call, the innermost last                                          *)
(***************************************************************************)
Init ==
    /\ \/ \E k \in 0..MaxLen : tokens \in [1..k -> Alphabet]
       \/ \E k \in 1..MaxOperands : tokens \in FlatExprs(Symbols, Conjunctions, k)
       \/ \E k \in 1..MaxGroupOperands : tokens \in GroupThirdInputs(k)
       \/ \E k \in 1..(2 * MaxWF + 1) :
             tokens \in GrammarExprs({"MIT"}, k) \cup GrammarExprs({"GPL-2.0-only"}, k)
    /\ index = 0
    /\ stack = <<NewCompoundExpression>>
    /\ err = NoError
    /\ pc = "parse"
    /\ WalkerIdle
    /\ FinderIdle
    /\ ServiceIdle
    /\ EvaluatorIdle

Top == stack[Len(stack)]

ReplaceTop(expression) == [stack EXCEPT ![Len(stack)] = expression]

Token == tokens[index + 1]

(* variant: the caller does not step over the right parenthesis *)
Return_IndexKept(ev) ==
    IF Len(stack) = 1
    THEN /\ stack' = <<ev.expr>>
         /\ err' = ev.err
         /\ pc' = "done"
         /\ UNCHANGED <<tokens, index>>
    ELSE IF ev.err # NoError
    THEN /\ stack' = <<stack[1]>>
         /\ err' = ev.err
         /\ pc' = "done"
         /\ index' = 0
         /\ UNCHANGED tokens
    ELSE /\ stack' = SubSeq(stack, 1, Len(stack) - 2)
                        \o <<AttachChild(stack[Len(stack) - 1], ev.expr)>>
         /\ UNCHANGED <<tokens, index, err, pc>>

(* the innermost call returns (expression, index, error): ParseExpression  *)
(* ends, or the caller's LEFT_PARENS case goes on                          *)
Return(ev) ==
    IF Len(stack) = 1
    THEN /\ stack' = <<ev.expr>>
         /\ err' = ev.err
         /\ pc' = "done"
         /\ UNCHANGED <<tokens, index>>
    ELSE IF ev.err # NoError
    THEN /\ stack' = <<stack[1]>>
         /\ err' = ev.err
         /\ pc' = "done"
         /\ index' = 0
         /\ UNCHANGED tokens
    ELSE /\ stack' = SubSeq(stack, 1, Len(stack) - 2)
                        \o <<AttachChild(stack[Len(stack) - 1], ev.expr)>>
         /\ index' = index + 1
         /\ UNCHANGED <<tokens, err, pc>>

ParseLeftParens ==
    /\ pc = "parse"
    /\ index < Len(tokens)
    /\ ToUpper(Token) = LEFT_PARENS
    /\ stack' = Append(stack, NewCompoundExpression)
    /\ index' = index + 1
    /\ UNCHANGED <<tokens, err, pc>>
    /\ UNCHANGED nonParserVars

ParseRightParens ==
    /\ pc = "parse"
    /\ index < Len(tokens)
    /\ ToUpper(Token) = RIGHT_PARENS
    /\ Return(EvaluateUsagePolicies(Top))
    /\ UNCHANGED nonParserVars

(* variant: the conjunction is stored as it is written in the token list *)
ParseConjunctionToken_TokenStored(conjunction) ==
    /\ pc = "parse"
    /\ index < Len(tokens)
    /\ ToUpper(Token) = conjunction
    /\ stack' = ReplaceTop(ParseConjunction(Top, Token))
    /\ index' = index + 1
    /\ UNCHANGED <<tokens, err, pc>>
    /\ UNCHANGED nonParserVars

ParseConjunctionToken(conjunction) ==
    /\ pc = "parse"
    /\ index < Len(tokens)
    /\ ToUpper(Token) = conjunction
    /\ stack' = ReplaceTop(ParseConjunction(Top, conjunction))
    /\ index' = index + 1
    /\ UNCHANGED <<tokens, err, pc>>
    /\ UNCHANGED nonParserVars

ParseAND == ParseConjunctionToken(AND)

ParseOR == ParseConjunctionToken(OR)

ParseWITH == ParseConjunctionToken(WITH_)

ParseSimpleExpression ==
    /\ pc = "parse"
    /\ index < Len(tokens)
    /\ ToUpper(Token) \notin {LEFT_PARENS, RIGHT_PARENS, AND, OR, WITH_}
    /\ IF ParseSimpleErr(Top, Token) # NoError
       THEN /\ stack' = <<IF Len(stack) = 1 THEN ParseSimple(Top, Token)
                           ELSE stack[1]>>
            /\ err' = ParseSimpleErr(Top, Token)
            /\ pc' = "done"
            /\ index' = 0
            /\ UNCHANGED tokens
       ELSE /\ stack' = ReplaceTop(ParseSimple(Top, Token))
            /\ index' = index + 1
            /\ UNCHANGED <<tokens, err, pc>>
    /\ UNCHANGED nonParserVars

ParseEndOfTokens ==
    /\ pc = "parse"
    /\ index >= Len(tokens)
    /\ Return(EvaluateUsagePolicies(Top))
    /\ UNCHANGED nonParserVars

Next ==
    \/ ParseLeftParens
    \/ ParseRightParens
    \/ ParseAND
    \/ ParseOR
    \/ ParseWITH
    \/ ParseSimpleExpression
    \/ ParseEndOfTokens

Spec == Init /\ [][Next]_vars

(* expressions parsed with a policy store whose lookup fails for some      *)
(* symbols                                                                 *)
LookupSymbols == {"MIT", "GPL-2.0-only"} \cup FailingSymbols

LookupAlphabet == {LEFT_PARENS, RIGHT_PARENS, AND, "MIT"} \cup FailingSymbols

LookupInit ==
    /\ \/ \E k \in 0..MaxLen : tokens \in [1..k -> LookupAlphabet]
       \/ \E k \in 1..MaxLookupOperands :
             tokens \in FlatExprs(LookupSymbols, Conjunctions, k)
       \/ \E k \in 1..MaxGroupOperands :
             tokens \in {<<LEFT_PARENS>> \o e \o <<RIGHT_PARENS>> :
                            e \in FlatExprs(LookupSymbols, Conjunctions, k)}
    /\ index = 0
    /\ stack = <<NewCompoundExpression>>
    /\ err = NoError
    /\ pc = "parse"
    /\ WalkerIdle
    /\ FinderIdle
    /\ ServiceIdle
    /\ EvaluatorIdle

LookupSpec == LookupInit /\ [][Next]_vars

(* the loop of Parse runs on until it returns *)
LookupFairSpec == LookupInit /\ [][Next]_vars /\ WF_vars(Next)

(***************************************************************************)
(* Sanity of the model                                                     *)
(***************************************************************************)
Result == stack[1]

TypeOK ==
    /\ index \in 0..(2 * Len(tokens))
    /\ Len(stack) >= 1
    /\ pc \in {"parse", "done"}
    /\ \A i \in 1..Len(stack) : stack[i].CompoundUsagePolicy \in Policies

(* the token-by-token run ends where the recursive function does *)
RunAgreesWithParse ==
    pc = "done" =>
        LET p == ParseExpression(tokens)
        IN  /\ Result = p.expr
            /\ index = p.index
            /\ err = p.err

(***************************************************************************)
(* Shapes of token lists and of trees used to state the properties         *)
(***************************************************************************)
PolicyOfResult == Result.CompoundUsagePolicy

IsSymbol(token) == ToUpper(token) = "SYMBOL"

IsConjunction(token) == ToUpper(token) \in Conjunctions

(* operand (conjunction operand)* with conjunctions drawn from C *)
IsFlat(toks, C) ==
    /\ Len(toks) % 2 = 1
    /\ \A i \in 1..Len(toks) :
          IF i % 2 = 1 THEN IsSymbol(toks[i]) ELSE ToUpper(toks[i]) \in C

(* every right parenthesis closes an open group and no group stays open *)
RECURSIVE BalancedFrom(_, _, _)
BalancedFrom(toks, i, depth) ==
    IF i > Len(toks) THEN depth = 0
    ELSE IF ToUpper(toks[i]) = LEFT_PARENS THEN BalancedFrom(toks, i + 1, depth + 1)
    ELSE IF ToUpper(toks[i]) = RIGHT_PARENS
         THEN depth > 0 /\ BalancedFrom(toks, i + 1, depth - 1)
    ELSE BalancedFrom(toks, i + 1, depth)

Balanced(toks) == BalancedFrom(toks, 1, 0)

(* the grammar  expr := term (CONJ term)*,  term := SYM | ( expr ) *)
RECURSIVE WellFormedFrom(_, _, _, _)
WellFormedFrom(toks, i, depth, operandNext) ==
    IF i > Len(toks) THEN depth = 0 /\ ~operandNext
    ELSE IF operandNext
    THEN IF ToUpper(toks[i]) = LEFT_PARENS THEN WellFormedFrom(toks, i + 1, depth + 1, TRUE)
         ELSE IsSymbol(toks[i]) /\ WellFormedFrom(toks, i + 1, depth, FALSE)
    ELSE IF IsConjunction(toks[i]) THEN WellFormedFrom(toks, i + 1, depth, TRUE)
         ELSE /\ ToUpper(toks[i]) = RIGHT_PARENS
              /\ depth > 0
              /\ WellFormedFrom(toks, i + 1, depth - 1, FALSE)

WellFormed(toks) == WellFormedFrom(toks, 1, 0, TRUE)

LeavesOf(toks) == {toks[i] : i \in {j \in 1..Len(toks) : IsSymbol(toks[j])}}

(* the nodes of a tree *)
RECURSIVE Nodes(_)
Nodes(n) ==
    {n}
    \cup (IF n.CompoundLeft # <<>> THEN Nodes(n.CompoundLeft[1]) ELSE {})
    \cup (IF n.CompoundRight # <<>> THEN Nodes(n.CompoundRight[1]) ELSE {})

Swapped(n) ==
    [n EXCEPT !.LeftUsagePolicy = n.RightUsagePolicy,
              !.RightUsagePolicy = n.LeftUsagePolicy]

(***************************************************************************)
(* C1: a parenthesis-free expression over AND and OR evaluates to its value *)
(* under natural precedence: every AND group first, then the ORs            *)
(***************************************************************************)
RECURSIVE NaturalFrom(_, _, _, _, _)
NaturalFrom(toks, i, andAcc, hasOr, orAcc) ==
    IF i > Len(toks)
    THEN IF hasOr THEN EvaluateOR(orAcc, andAcc) ELSE andAcc
    ELSE IF ToUpper(toks[i]) = AND
    THEN NaturalFrom(toks, i + 2, EvaluateAND(andAcc, findPolicy(toks[i + 1])), hasOr, orAcc)
    ELSE NaturalFrom(toks, i + 2, findPolicy(toks[i + 1]), TRUE,
                     IF hasOr THEN EvaluateOR(orAcc, andAcc) ELSE andAcc)

NaturalValue(toks) == NaturalFrom(toks, 2, findPolicy(toks[1]), FALSE, POLICY_UNDEFINED)

(* C1: for every flat AND/OR expression the parsed policy is the value     *)
(* under natural operator precedence                                       *)
C1_NaturalPrecedence ==
    (pc = "done" /\ IsFlat(tokens, {AND, OR})) =>
        PolicyOfResult = NaturalValue(tokens)

(***************************************************************************)
(* C2: a parenthesized group met with both conjunctions set is the third    *)
(* term                                                                    *)
(***************************************************************************)
IsGroupThird(toks) ==
    /\ Len(toks) >= 7
    /\ IsSymbol(toks[1]) /\ IsConjunction(toks[2])
    /\ IsSymbol(toks[3]) /\ IsConjunction(toks[4])
    /\ toks[5] = LEFT_PARENS
    /\ toks[Len(toks)] = RIGHT_PARENS
    /\ IsFlat(SubSeq(toks, 6, Len(toks) - 1), Conjunctions)

(* C2: after L c1 R c2 ( group ) the subsequent conjunction is cleared and *)
(* the second operand still counts: A AND B AND ( group ) is Deny whenever *)
(* B is Deny                                                               *)
C2_GroupIsThirdTerm ==
    (pc = "done" /\ IsGroupThird(tokens)) =>
        /\ Result.SubsequentConjunction = ""
        /\ (/\ ToUpper(tokens[2]) = AND
            /\ ToUpper(tokens[4]) = AND
            /\ findPolicy(tokens[3]) = POLICY_DENY) => PolicyOfResult = POLICY_DENY

(***************************************************************************)
(* C3, C4, C5: the tables of the evaluator, read off every node of the     *)
(* tree a finished parse returns                                           *)
(***************************************************************************)
AndTable(l, r) ==
    IF l = POLICY_DENY \/ r = POLICY_DENY THEN POLICY_DENY
    ELSE IF l = POLICY_UNDEFINED \/ r = POLICY_UNDEFINED THEN POLICY_UNDEFINED
    ELSE IF l = POLICY_NEEDS_REVIEW \/ r = POLICY_NEEDS_REVIEW THEN POLICY_NEEDS_REVIEW
    ELSE POLICY_ALLOW

OrTable(l, r) ==
    IF l = POLICY_UNDEFINED THEN r
    ELSE IF r = POLICY_UNDEFINED THEN l
    ELSE IF l = POLICY_ALLOW \/ r = POLICY_ALLOW THEN POLICY_ALLOW
    ELSE IF l = POLICY_NEEDS_REVIEW \/ r = POLICY_NEEDS_REVIEW THEN POLICY_NEEDS_REVIEW
    ELSE POLICY_DENY

WithTable(l, r) ==
    IF l = POLICY_UNDEFINED THEN r
    ELSE IF r = POLICY_UNDEFINED THEN l
    ELSE IF r \in {POLICY_ALLOW, POLICY_NEEDS_REVIEW} THEN r
    ELSE POLICY_DENY

(* C3: every AND node holds Deny if a side is Deny, else Undefined if a    *)
(* side is Undefined, else NeedsReview if a side is NeedsReview, else      *)
(* Allow; evaluating the node with its sides exchanged gives the same      *)
C3_AndTable ==
    pc = "done" =>
        \A n \in Nodes(Result) :
            n.Conjunction = AND =>
                /\ n.LeftUsagePolicy \in Policies /\ n.RightUsagePolicy \in Policies
                /\ n.CompoundUsagePolicy = AndTable(n.LeftUsagePolicy, n.RightUsagePolicy)
                /\ EvaluateUsagePolicies(Swapped(n)).expr.CompoundUsagePolicy
                        = n.CompoundUsagePolicy

C3_Witness ==
    /\ pc = "done"
    /\ tokens = <<"FOO", AND, "GPL-2.0-only">>
    /\ Result.LeftUsagePolicy = POLICY_UNDEFINED
    /\ Result.RightUsagePolicy = POLICY_DENY
    /\ PolicyOfResult = POLICY_DENY

(* C4: every OR node holds the other side when a side is Undefined, else   *)
(* Allow if a side is Allow, else NeedsReview if a side is NeedsReview,    *)
(* else Deny; evaluating the node with its sides exchanged gives the same  *)
C4_OrTable ==
    pc = "done" =>
        \A n \in Nodes(Result) :
            n.Conjunction = OR =>
                /\ n.LeftUsagePolicy \in Policies /\ n.RightUsagePolicy \in Policies
                /\ n.CompoundUsagePolicy = OrTable(n.LeftUsagePolicy, n.RightUsagePolicy)
                /\ EvaluateUsagePolicies(Swapped(n)).expr.CompoundUsagePolicy
                        = n.CompoundUsagePolicy

C4_Witness ==
    /\ pc = "done"
    /\ tokens = <<"GPL-2.0-only", OR, "FOO">>
    /\ Result.LeftUsagePolicy = POLICY_DENY
    /\ Result.RightUsagePolicy = POLICY_UNDEFINED
    /\ PolicyOfResult = POLICY_DENY

(* C5: every WITH node holds the other side when a side is Undefined, else *)
(* the right side when that is Allow or NeedsReview, else Deny; exchanging *)
(* the sides of Allow WITH Deny changes the result                         *)
C5_WithTable ==
    pc = "done" =>
        \A n \in Nodes(Result) :
            n.Conjunction = WITH_ =>
                /\ n.LeftUsagePolicy \in Policies /\ n.RightUsagePolicy \in Policies
                /\ n.CompoundUsagePolicy = WithTable(n.LeftUsagePolicy, n.RightUsagePolicy)
                /\ (n.LeftUsagePolicy = POLICY_ALLOW /\ n.RightUsagePolicy = POLICY_DENY) =>
                        /\ n.CompoundUsagePolicy = POLICY_DENY
                        /\ EvaluateUsagePolicies(Swapped(n)).expr.CompoundUsagePolicy
                                = POLICY_ALLOW

C5_Witness ==
    /\ pc = "done"
    /\ tokens = <<"MIT", WITH_, "GPL-2.0-only">>
    /\ Result.LeftUsagePolicy = POLICY_ALLOW
    /\ Result.RightUsagePolicy = POLICY_DENY
    /\ PolicyOfResult = POLICY_DENY

(***************************************************************************)
(* C6: uniform policy stores                                               *)
(***************************************************************************)
(* C6: a well-formed expression all of whose leaves are Allow parses       *)
(* without error to Allow, and one all of whose leaves are Deny to Deny    *)
C6_UniformLeaves ==
    (pc = "done" /\ WellFormed(tokens)) =>
        /\ LeavesOf(tokens) = {"MIT"} => (err = NoError /\ PolicyOfResult = POLICY_ALLOW)
        /\ LeavesOf(tokens) = {"GPL-2.0-only"} =>
                (err = NoError /\ PolicyOfResult = POLICY_DENY)

C6_Witness ==
    /\ pc = "done"
    /\ tokens = <<"GPL-2.0-only", WITH_, LEFT_PARENS, "GPL-2.0-only", OR,
                  "GPL-2.0-only", RIGHT_PARENS, AND, "GPL-2.0-only">>
    /\ PolicyOfResult = POLICY_DENY

(***************************************************************************)
(* C7: redundant outer parentheses                                         *)
(***************************************************************************)
Wrapped(toks) == <<LEFT_PARENS>> \o toks \o <<RIGHT_PARENS>>

(* C7: for every expression e (a token list with balanced parentheses)     *)
(* ParseExpression of ( e ) yields the usage policy ParseExpression of e   *)
(* yields                                                                  *)
C7_OuterParentheses ==
    (pc = "done" /\ Balanced(tokens)) =>
        LET wrapped == ParseExpression(Wrapped(tokens))
        IN  /\ wrapped.err = err
            /\ wrapped.expr.CompoundUsagePolicy = PolicyOfResult

C7_Witness ==
    /\ pc = "done"
    /\ tokens = <<"MPL-1.0", AND, "MIT", OR, "GPL-2.0-only">>
    /\ PolicyOfResult = POLICY_NEEDS_REVIEW
    /\ ParseExpression(Wrapped(tokens)).expr.CompoundLeft # <<>>

(***************************************************************************)
(* C8: expressions without any operand                                     *)
(***************************************************************************)
(* C8: a token list that holds no operand symbol parses without error to   *)
(* the Undefined policy                                                    *)
C8_NoOperand ==
    (pc = "done" /\ LeavesOf(tokens) = {}) =>
        /\ err = NoError
        /\ PolicyOfResult = POLICY_UNDEFINED

C8_Witness ==
    /\ pc = "done"
    /\ tokens = <<LEFT_PARENS, RIGHT_PARENS>>
    /\ Result.CompoundLeft # <<>>
    /\ PolicyOfResult = POLICY_UNDEFINED

(***************************************************************************)
(* C9: a leading conjunction followed by one symbol                        *)
(***************************************************************************)
IsLeadingConjunction(toks) ==
    Len(toks) = 2 /\ IsConjunction(toks[1]) /\ IsSymbol(toks[2])

(* C9 as stated: the symbol X of `c X` becomes the left operand of a node  *)
(* without conjunction and the result is the policy of X                   *)
C9_LeadingConjunctionIsLeft ==
    (pc = "done" /\ IsLeadingConjunction(tokens)) =>
        /\ Result.Conjunction = CONJUNCTION_UNDEFINED
        /\ Result.LeftUsagePolicy = findPolicy(tokens[2])
        /\ Result.RightUsagePolicy = POLICY_UNDEFINED
        /\ PolicyOfResult = findPolicy(tokens[2])

(* C9 amended: the symbol X of `c X` becomes the right operand of a node   *)
(* whose conjunction is c and whose left side is Undefined; the result is  *)
(* the policy of X for OR and WITH, and for AND it is Deny when X is Deny  *)
(* and Undefined otherwise                                                 *)
C9_LeadingConjunctionIsRight ==
    (pc = "done" /\ IsLeadingConjunction(tokens)) =>
        /\ Result.Conjunction = ToUpper(tokens[1])
        /\ Result.SimpleLeft = "" /\ Result.SimpleRight = tokens[2]
        /\ Result.LeftUsagePolicy = POLICY_UNDEFINED
        /\ Result.RightUsagePolicy = findPolicy(tokens[2])
        /\ PolicyOfResult =
              IF ToUpper(tokens[1]) \in {OR, WITH_} THEN findPolicy(tokens[2])
              ELSE IF findPolicy(tokens[2]) = POLICY_DENY THEN POLICY_DENY
              ELSE POLICY_UNDEFINED

C9_Witness ==
    /\ pc = "done"
    /\ tokens = <<AND, "MIT">>
    /\ Result.Conjunction = AND
    /\ PolicyOfResult = POLICY_UNDEFINED

(***************************************************************************)
(* C10: unbalanced parentheses                                             *)
(***************************************************************************)
(* C10: a token list whose parentheses do not balance (a right parenthesis *)
(* at depth 0, or a group still open at the end) is answered with an error *)
C10_UnbalancedIsError ==
    (pc = "done" /\ ~Balanced(tokens)) => err # NoError

(***************************************************************************)
(* C11: a conjunction where an operand is required                         *)
(***************************************************************************)
(* a conjunction token at the start of a scope or directly after another   *)
(* conjunction                                                             *)
ConjunctionAtOperandPosition(toks) ==
    \E i \in 1..Len(toks) :
        /\ IsConjunction(toks[i])
        /\ \/ i = 1
           \/ toks[i - 1] = LEFT_PARENS
           \/ IsConjunction(toks[i - 1])

(* C11 as stated: a token list with a conjunction at the start of a scope  *)
(* or directly after another conjunction is answered with an error         *)
C11_ConjunctionAtOperandIsError ==
    (pc = "done" /\ ConjunctionAtOperandPosition(tokens)) => err # NoError

(* C11 amended: a conjunction at the start of a scope or directly after    *)
(* another conjunction is accepted; the parse ends without error, and the  *)
(* only conjunctions a node of the result carries are AND, OR, WITH or none *)
C11_ConjunctionAtOperandIsAccepted ==
    (pc = "done" /\ ConjunctionAtOperandPosition(tokens)) =>
        /\ err = NoError
        /\ \A n \in Nodes(Result) :
              n.Conjunction \in Conjunctions \cup {CONJUNCTION_UNDEFINED}

C11_Witness ==
    /\ pc = "done"
    /\ tokens = <<"MIT", AND, OR, "GPL-2.0-only">>
    /\ Result.Conjunction = OR
    /\ Result.CompoundLeft # <<>>
    /\ Result.SimpleRight = "GPL-2.0-only"
    /\ err = NoError

(***************************************************************************)
(* The SBOM walker (cmd/license.go).  A text is the list of its words      *)
(* (what strings.Fields yields), the empty string is the empty list, a nil *)
(* pointer is the empty tuple and a non-nil one a one-element tuple.       *)
(***************************************************************************)
LICENSE_NO_ASSERTION == <<"NOASSERTION">>

LC_TYPE_INVALID == "invalid"

LC_TYPE_ID == "id"

LC_TYPE_NAME == "name"

LC_TYPE_EXPRESSION == "expression"

(* schema.CDXLicense and schema.CDXLicenseChoice *)
CDXLicense(id, name, url) == [Id |-> id, Name |-> name, Url |-> url]

LicenseWith(license) == [License |-> <<license>>, Expression |-> <<>>]

ExpressionWith(expression) == [License |-> <<>>, Expression |-> expression]

(* the URLs of the examples *)
Urls == {"http://mit", "http://gpl"}

(* schema.IsUrlish: the name starts like a URL *)
IsUrlish(name) == name # <<>> /\ name[1] \in Urls

(* schema.SplitUrls: the URLs of a list separated by commas or blanks *)
SplitUrls(name) == [urls |-> name, err |-> NoError]

(* schema.HasLogicalConjunctionOrPreposition *)
HasLogicalConjunctionOrPreposition(name) ==
    \E i \in 1..Len(name) :
        name[i] \in Conjunctions \cup {LEFT_PARENS, RIGHT_PARENS}

(* strings.Join(parts, " OR ") *)
RECURSIVE JoinWithOr(_)
JoinWithOr(parts) ==
    IF parts = <<>> THEN <<>>
    ELSE IF Len(parts) = 1 THEN parts[1]
    ELSE parts[1] \o <<OR>> \o JoinWithOr(Tail(parts))

(* the part one license choice contributes to the joined expression; a   *)
(* choice that contributes none is skipped                                *)
LicenseExpressionPart(licenseChoice) ==
    IF licenseChoice.License # <<>>
    THEN LET license == licenseChoice.License[1]
         IN  IF license.Id # <<>> THEN <<license.Id>>
             ELSE IF license.Url # <<>> THEN <<license.Url>>
             ELSE IF license.Name # <<>> THEN <<license.Name>>
             ELSE <<>>
    ELSE IF licenseChoice.Expression # <<>>
    THEN <<<<LEFT_PARENS>> \o licenseChoice.Expression \o <<RIGHT_PARENS>>>>
    ELSE <<>>

RECURSIVE LicenseExpressionParts(_)
LicenseExpressionParts(licenses) ==
    IF licenses = <<>> THEN <<>>
    ELSE LicenseExpressionPart(Head(licenses)) \o LicenseExpressionParts(Tail(licenses))

(* the choice hashed for a component with the license choices licenses *)
JoinedLicenseChoice(licenses) ==
    IF Len(licenses) > 1
    THEN ExpressionWith(JoinWithOr(LicenseExpressionParts(licenses)))
    ELSE licenses[1]

(* the usage policy the policy store holds for an id, a name or a URL *)
FindPolicyByKey(key) ==
    IF Len(key) = 1 THEN findPolicy(key[1]) ELSE POLICY_UNDEFINED

(* schema.LicenseInfo *)
LicenseInfo(licenseChoice, cdxComponent) ==
    [LicenseChoice |-> licenseChoice,
     BOMRef |-> cdxComponent.BOMRef,
     Group |-> cdxComponent.Group,
     ResourceName |-> cdxComponent.Name]

(* bom.HashLicenseInfo: the entry put into the license map under key *)
HashLicenseInfo(key, typeValue, licenseInfo) ==
    [Key |-> key,
     LicenseChoiceTypeValue |-> typeValue,
     BOMRef |-> licenseInfo.BOMRef,
     Group |-> licenseInfo.Group,
     ResourceName |-> licenseInfo.ResourceName,
     LicenseChoice |-> licenseInfo.LicenseChoice,
     UsagePolicy |->
        IF typeValue = LC_TYPE_EXPRESSION
        THEN ParseExpression(licenseInfo.LicenseChoice.Expression).expr.CompoundUsagePolicy
        ELSE FindPolicyByKey(key)]

MSG_LICENSE_INVALID_DATA == "invalid license data"

(* the fix-up of a license without id: its name, url and expression and    *)
(* the key it is hashed under                                               *)
FixUpLicenseName(licenseChoice) ==
    LET pLicense == licenseChoice.License[1]
        urlish == IsUrlish(pLicense.Name)
        licenseUrls == SplitUrls(pLicense.Name)
        afterUrls ==
            IF ~urlish THEN [Name |-> pLicense.Name, Url |-> pLicense.Url,
                             Expression |-> licenseChoice.Expression]
            ELSE IF Len(licenseUrls.urls) = 1
            THEN [Name |-> <<>>, Url |-> <<licenseUrls.urls[1]>>,
                  Expression |-> licenseChoice.Expression]
            ELSE [Name |-> <<>>, Url |-> pLicense.Url,
                  Expression |-> JoinWithOr([i \in 1..Len(licenseUrls.urls) |->
                                                <<licenseUrls.urls[i]>>])]
    IN  IF pLicense.Name = <<>>
        THEN [Name |-> <<>>, Url |-> pLicense.Url,
              Expression |-> licenseChoice.Expression,
              licenseInfoKey |-> pLicense.Url, err |-> NoError]
        ELSE IF urlish /\ licenseUrls.err # NoError
        THEN [Name |-> pLicense.Name, Url |-> pLicense.Url,
              Expression |-> licenseChoice.Expression,
              licenseInfoKey |-> pLicense.Name, err |-> licenseUrls.err]
        ELSE IF HasLogicalConjunctionOrPreposition(afterUrls.Name)
        THEN [Name |-> <<>>, Url |-> afterUrls.Url,
              Expression |-> afterUrls.Name,
              licenseInfoKey |-> pLicense.Name, err |-> NoError]
        ELSE [Name |-> afterUrls.Name, Url |-> afterUrls.Url,
              Expression |-> afterUrls.Expression,
              licenseInfoKey |-> pLicense.Name, err |-> NoError]

(* hashLicenseInfoByLicenseType: the entries added to the license map (none *)
(* or one) and the error                                                    *)
hashLicenseInfoByLicenseType(licenseInfo) ==
    LET licenseChoice == licenseInfo.LicenseChoice
        hashed(key, typeValue, choice) ==
            [entries |-> <<HashLicenseInfo(key, typeValue,
                              [licenseInfo EXCEPT !.LicenseChoice = choice])>>,
             err |-> NoError]
        failed(e) == [entries |-> <<>>, err |-> e]
    IN  IF licenseChoice.License # <<>>
        THEN LET pLicense == licenseChoice.License[1]
                 fixed == FixUpLicenseName(licenseChoice)
                 choice == [License |-> <<CDXLicense(<<>>, fixed.Name, fixed.Url)>>,
                            Expression |-> fixed.Expression]
             IN  IF pLicense.Id # <<>>
                 THEN hashed(pLicense.Id, LC_TYPE_ID, licenseChoice)
                 ELSE IF fixed.err # NoError THEN failed(MSG_LICENSE_INVALID_DATA)
                 ELSE IF fixed.Name # <<>>
                 THEN hashed(fixed.licenseInfoKey, LC_TYPE_NAME, choice)
                 ELSE IF fixed.Url # <<>>
                 THEN hashed(fixed.licenseInfoKey, LC_TYPE_NAME, choice)
                 ELSE IF fixed.Expression # <<>>
                 THEN hashed(fixed.licenseInfoKey, LC_TYPE_EXPRESSION, choice)
                 ELSE failed(MSG_LICENSE_INVALID_DATA)
        ELSE IF licenseChoice.Expression # <<>>
        THEN hashed(licenseChoice.Expression, LC_TYPE_EXPRESSION, licenseChoice)
        ELSE failed(MSG_LICENSE_INVALID_DATA)

(***************************************************************************)
(* Components.  Purl is the class of the package URL (which of the two     *)
(* purl patterns it matches), WellKnown the answer of the well-known       *)
(* components table for the component and Remote what FindLicensesInPom or *)
(* QueryEclipseLicenseCheckService return when asked for it.               *)
(***************************************************************************)
MSG_REMOTE_FAILED == "remote request failed"

NoWellKnown == [type |-> LC_TYPE_INVALID, characteristic |-> <<>>]

NoRemote == [err |-> NoError, pomLicenses |-> <<>>, eclipseLicense |-> <<>>]

CDXComponent(bomRef, group, name, purl, licenses, wellKnown, remote, components) ==
    [BOMRef |-> bomRef, Group |-> group, Name |-> name, Purl |-> purl,
     Licenses |-> licenses, WellKnown |-> wellKnown, Remote |-> remote,
     Components |-> components]

IsFullyQualifiedMavenComponent(cdxComponent) == cdxComponent.Purl = "maven"

IsFullyQualifiedP2Component(cdxComponent) == cdxComponent.Purl = "p2"

(* the name split at "/" is a list of segments; a composite name of two    *)
(* segments is split into group and name when the group is empty           *)
SplitCompositeName(cdxComponent) ==
    IF cdxComponent.Group = "" /\ Len(cdxComponent.Name) > 1 /\ Len(cdxComponent.Name) = 2
    THEN [cdxComponent EXCEPT !.Group = cdxComponent.Name[1],
                              !.Name = <<cdxComponent.Name[2]>>]
    ELSE cdxComponent

(* the license choice of the well-known components table *)
WellKnownLicenseChoices(cdxComponent) ==
    LET w == cdxComponent.WellKnown
    IN  CASE w.type = LC_TYPE_ID -> <<LicenseWith(CDXLicense(w.characteristic, <<>>, <<>>))>>
          [] w.type = LC_TYPE_NAME -> <<LicenseWith(CDXLicense(<<>>, w.characteristic, <<>>))>>
          [] w.type = LC_TYPE_EXPRESSION -> <<ExpressionWith(w.characteristic)>>
          [] OTHER -> <<>>

(* the license choices made of the flat list name, url, name, url, ...     *)
RECURSIVE PomLicenseChoices(_)
PomLicenseChoices(pomLicenses) ==
    IF Len(pomLicenses) < 2 THEN <<>>
    ELSE <<LicenseWith(CDXLicense(<<>>, pomLicenses[1], pomLicenses[2]))>>
         \o PomLicenseChoices(SubSeq(pomLicenses, 3, Len(pomLicenses)))

(* REGEX_LICENSE_EXPRESSION: AND, OR or WITH with blanks on both sides *)
MatchesLicenseExpression(text) ==
    \E i \in 2..(Len(text) - 1) : text[i] \in Conjunctions

EclipseLicenseChoices(eclipseLicense) ==
    IF MatchesLicenseExpression(eclipseLicense)
    THEN <<ExpressionWith(eclipseLicense)>>
    ELSE <<LicenseWith(CDXLicense(eclipseLicense, <<>>, <<>>))>>

(* variant: the well-known table is asked first and the declared licenses  *)
(* count only when it has no answer                                        *)
DeclaredOrWellKnown_TableFirst(cdxComponent) ==
    IF WellKnownLicenseChoices(cdxComponent) # <<>>
    THEN WellKnownLicenseChoices(cdxComponent)
    ELSE cdxComponent.Licenses

(* pLicenses after the declared licenses and the well-known table *)
DeclaredOrWellKnown(cdxComponent) ==
    IF cdxComponent.Licenses # <<>> THEN cdxComponent.Licenses
    ELSE WellKnownLicenseChoices(cdxComponent)

(* the sources asked for the licenses of the component, in the order of    *)
(* the calls: the well-known components table and the remote services      *)
SourcesConsultedFor(cdxComponent) ==
    LET asked(source) == <<[BOMRef |-> cdxComponent.BOMRef, source |-> source]>>
    IN  (IF cdxComponent.Licenses = <<>> THEN asked("wellknown") ELSE <<>>)
        \o (IF DeclaredOrWellKnown(cdxComponent) # <<>> THEN <<>>
            ELSE (IF IsFullyQualifiedMavenComponent(cdxComponent)
                  THEN asked("maven") ELSE <<>>)
                 \o (IF IsFullyQualifiedP2Component(cdxComponent)
                     THEN asked("p2") ELSE <<>>))

(* pLicenses when the search for the licenses of the component is over *)
FoundLicenses(cdxComponent) ==
    LET first == DeclaredOrWellKnown(cdxComponent)
        remote == cdxComponent.Remote
        afterMaven ==
            IF /\ IsFullyQualifiedMavenComponent(cdxComponent)
               /\ remote.err = NoError /\ Len(remote.pomLicenses) > 0
            THEN PomLicenseChoices(remote.pomLicenses)
            ELSE <<>>
    IN  IF first # <<>> THEN first
        ELSE IF /\ IsFullyQualifiedP2Component(cdxComponent)
                /\ remote.err = NoError /\ Len(remote.eclipseLicense) > 0
        THEN EclipseLicenseChoices(remote.eclipseLicense)
        ELSE afterMaven

(***************************************************************************)
(* The walk as a state machine: frames holds, for every open call of       *)
(* hashComponentsLicenses, its components and the position of its loop,    *)
(* the innermost call last                                                  *)
(***************************************************************************)
TopFrame == frames[Len(frames)]

CurrentComponent == TopFrame.components[TopFrame.i]

(* the loop of the innermost hashComponentsLicenses moves on *)
NextComponent == [frames EXCEPT ![Len(frames)].i = TopFrame.i + 1]

(* hashComponentLicense up to the recursion into the nested components *)
HashComponentLicense ==
    /\ walkPc = "walk"
    /\ TopFrame.i <= Len(TopFrame.components)
    /\ LET cdxComponent == SplitCompositeName(CurrentComponent)
           pLicenses == FoundLicenses(cdxComponent)
       IN  /\ consulted' = consulted \o SourcesConsultedFor(cdxComponent)
           /\ IF pLicenses # <<>>
              THEN LET h == hashLicenseInfoByLicenseType(
                               LicenseInfo(JoinedLicenseChoice(pLicenses), cdxComponent))
                   IN  IF h.err # NoError
                       THEN /\ walkErr' = h.err
                            /\ walkPc' = "done"
                            /\ UNCHANGED <<licenseMap, frames>>
                       ELSE /\ licenseMap' = licenseMap \o h.entries
                            /\ frames' =
                                  IF cdxComponent.Components # <<>>
                                  THEN Append(frames, [components |-> cdxComponent.Components,
                                                       i |-> 1])
                                  ELSE NextComponent
                            /\ UNCHANGED <<walkErr, walkPc>>
              ELSE /\ licenseMap' = Append(licenseMap,
                         HashLicenseInfo(LICENSE_NO_ASSERTION, LC_TYPE_INVALID,
                                         LicenseInfo(ExpressionWith(<<>>), cdxComponent)))
                   /\ frames' = NextComponent
                   /\ UNCHANGED <<walkErr, walkPc>>
    /\ UNCHANGED <<bom, nonWalkerVars>>

(* hashComponentsLicenses of nested components returns to hashComponentLicense, *)
(* which returns to the loop that called it                                     *)
ReturnFromNestedComponents ==
    /\ walkPc = "walk"
    /\ Len(frames) > 1
    /\ TopFrame.i > Len(TopFrame.components)
    /\ frames' = [SubSeq(frames, 1, Len(frames) - 1) EXCEPT
                     ![Len(frames) - 1].i = frames[Len(frames) - 1].i + 1]
    /\ UNCHANGED <<bom, licenseMap, consulted, walkErr, walkPc, nonWalkerVars>>

(* hashComponentsLicenses of the components of the document returns and    *)
(* loadDocumentLicenses ends                                               *)
LoadDocumentLicensesReturn ==
    /\ walkPc = "walk"
    /\ Len(frames) = 1
    /\ TopFrame.i > Len(TopFrame.components)
    /\ walkPc' = "done"
    /\ UNCHANGED <<bom, frames, licenseMap, consulted, walkErr, nonWalkerVars>>

WalkerNext ==
    \/ HashComponentLicense
    \/ ReturnFromNestedComponents
    \/ LoadDocumentLicensesReturn

(***************************************************************************)
(* Inputs of the walker: the components of a document                      *)
(***************************************************************************)
IdLicense(id) == LicenseWith(CDXLicense(<<id>>, <<>>, <<>>))

EmptyLicense == LicenseWith(CDXLicense(<<>>, <<>>, <<>>))

(* the members of a component with several license choices *)
JoinedChoices ==
    {IdLicense("MIT"), IdLicense("GPL-2.0-only"),
     LicenseWith(CDXLicense(<<>>, <<"MPL-1.0">>, <<>>)),
     ExpressionWith(<<"GPL-2.0-only", AND, "GPL-2.0-only">>),
     ExpressionWith(<<"MIT", OR, "FOO">>)}

(* the single license choices: every shape of id, name and url, and the    *)
(* expressions                                                              *)
SingleChoices ==
    {LicenseWith(CDXLicense(id, name, url)) :
        id \in {<<>>, <<"MIT">>},
        name \in {<<>>, <<"MIT">>, <<"http://mit">>, <<"http://mit", "http://gpl">>,
                  <<"MIT", OR, "GPL-2.0-only">>},
        url \in {<<>>, <<"http://gpl">>}}
    \cup {ExpressionWith(<<>>), ExpressionWith(<<"MIT", AND, "GPL-2.0-only">>)}

PomFound == [err |-> NoError, pomLicenses |-> <<<<"MIT">>, <<"http://mit">>>>,
             eclipseLicense |-> <<>>]

PomWithoutNameAndUrl == [err |-> NoError, pomLicenses |-> <<<<>>, <<>>>>,
                         eclipseLicense |-> <<>>]

RemoteFailed == [err |-> MSG_REMOTE_FAILED, pomLicenses |-> <<>>, eclipseLicense |-> <<>>]

EclipseFound(license) == [err |-> NoError, pomLicenses |-> <<>>, eclipseLicense |-> license]

WellKnownId == [type |-> LC_TYPE_ID, characteristic |-> <<"GPL-2.0-only">>]

Profile(licenses, wellKnown, purl, remote) ==
    [Licenses |-> licenses, WellKnown |-> wellKnown, Purl |-> purl, Remote |-> remote]

(* what the components of a document declare and what the sources answer *)
Profiles ==
    {Profile(<<IdLicense("MIT")>>, WellKnownId, "maven", PomFound),
     Profile(<<EmptyLicense>>, NoWellKnown, "other", NoRemote),
     Profile(<<>>, WellKnownId, "maven", PomFound),
     Profile(<<>>, NoWellKnown, "maven", PomFound),
     Profile(<<>>, NoWellKnown, "maven", RemoteFailed),
     Profile(<<>>, NoWellKnown, "maven", PomWithoutNameAndUrl),
     Profile(<<>>, NoWellKnown, "p2", EclipseFound(<<"MIT", OR, "GPL-2.0-only">>)),
     Profile(<<>>, NoWellKnown, "p2", EclipseFound(<<"MPL-1.0">>)),
     Profile(<<>>, NoWellKnown, "p2", RemoteFailed),
     Profile(<<>>, NoWellKnown, "other", NoRemote)}

NestedProfiles ==
    {Profile(<<IdLicense("GPL-2.0-only")>>, NoWellKnown, "other", NoRemote),
     Profile(<<>>, NoWellKnown, "other", NoRemote)}

ComponentOf(path, profile, components) ==
    CDXComponent(path, "", <<"lib">>, profile.Purl, profile.Licenses,
                 profile.WellKnown, profile.Remote, components)

(* no nested component, or one with up to depth levels below it; the BOM   *)
(* reference of a component is its path in the document                    *)
RECURSIVE NestedComponents(_, _)
NestedComponents(path, depth) ==
    IF depth = 0 THEN {<<>>}
    ELSE {<<>>} \cup
         {<<ComponentOf(path \o <<1>>, profile, components)>> :
             profile \in NestedProfiles,
             components \in NestedComponents(path \o <<1>>, depth - 1)}

RECURSIVE ComponentLists(_, _, _)
ComponentLists(i, k, depth) ==
    IF i > k THEN {<<>>}
    ELSE {<<ComponentOf(<<i>>, profile, components)>> \o rest :
             profile \in Profiles,
             components \in NestedComponents(<<i>>, depth),
             rest \in ComponentLists(i + 1, k, depth)}

(* one component without nested components that declares licenses *)
Declaring(licenses) ==
    <<CDXComponent(<<1>>, "", <<"lib">>, "other", licenses, NoWellKnown, NoRemote, <<>>)>>

(* one component with a group and a name of one or several segments *)
Named(group, name) ==
    <<CDXComponent(<<1>>, group, name, "other", <<IdLicense("MIT")>>,
                   NoWellKnown, NoRemote, <<>>)>>

(* no expression is parsed *)
ParserIdle ==
    /\ tokens = <<>> /\ index = 0 /\ stack = <<NewCompoundExpression>>
    /\ err = NoError /\ pc = "idle"

WalkerInit ==
    /\ \/ \E k \in 1..MaxChoices : \E licenses \in [1..k -> JoinedChoices] :
             bom = Declaring(licenses)
       \/ \E choice \in SingleChoices : bom = Declaring(<<choice>>)
       \/ \E group \in {"", "grp"} :
             \E name \in {<<"lib">>, <<"org", "lib">>, <<"a", "b", "c">>} :
                bom = Named(group, name)
       \/ \E k \in 0..MaxComponents : bom \in ComponentLists(1, k, MaxNesting - 1)
    /\ frames = <<[components |-> bom, i |-> 1]>>
    /\ licenseMap = <<>>
    /\ consulted = <<>>
    /\ walkErr = NoError
    /\ walkPc = "walk"
    /\ ParserIdle
    /\ FinderIdle
    /\ ServiceIdle
    /\ EvaluatorIdle

WalkerSpec == WalkerInit /\ [][WalkerNext]_walkerVars

(***************************************************************************)
(* Claims about the walker                                                 *)
(***************************************************************************)
(* the components of the document with everything nested into them *)
RECURSIVE AllComponents(_)
AllComponents(components) ==
    IF components = <<>> THEN {}
    ELSE {Head(components)} \cup AllComponents(Head(components).Components)
                            \cup AllComponents(Tail(components))

EntriesOf(bomRef) ==
    {i \in 1..Len(licenseMap) : licenseMap[i].BOMRef = bomRef}

(* the usage policy the parser gives a license choice taken on its own *)
PolicyOfChoice(licenseChoice) ==
    ParseExpression(JoinWithOr(LicenseExpressionPart(licenseChoice))).expr.CompoundUsagePolicy

RECURSIVE OrOfPolicies(_)
OrOfPolicies(licenses) ==
    IF licenses = <<>> THEN POLICY_UNDEFINED
    ELSE OrTable(PolicyOfChoice(Head(licenses)), OrOfPolicies(Tail(licenses)))

(***************************************************************************)
(* C12: several license choices of one component                           *)
(***************************************************************************)
(* C12: a component with n >= 2 license choices is hashed once, under the  *)
(* expression that joins the members in input order with OR and wraps the  *)
(* expression members in parentheses, and the usage policy                 *)
(* the parser gives that expression is the OR (by the OR table) of the     *)
(* usage policies of the n members                                         *)
C12_JoinedPolicyIsOrOfMembers ==
    (walkPc = "done" /\ Len(bom) = 1 /\ Len(bom[1].Licenses) >= 2) =>
        /\ walkErr = NoError
        /\ Len(licenseMap) = 1
        /\ licenseMap[1].LicenseChoiceTypeValue = LC_TYPE_EXPRESSION
        /\ licenseMap[1].Key = JoinWithOr(LicenseExpressionParts(bom[1].Licenses))
        /\ ParseExpression(licenseMap[1].Key).expr.CompoundUsagePolicy
              = OrOfPolicies(bom[1].Licenses)

(***************************************************************************)
(* C13: the classification of one license choice                           *)
(***************************************************************************)
(* the document is one component without nested components that declares *)
(* one license choice                                                     *)
DeclaresOneChoice ==
    Len(bom) = 1 /\ Len(bom[1].Licenses) = 1 /\ bom[1].Components = <<>>

HashedAs(typeValue, key) ==
    /\ walkErr = NoError
    /\ Len(licenseMap) = 1
    /\ licenseMap[1].LicenseChoiceTypeValue = typeValue
    /\ licenseMap[1].Key = key

NothingHashed == walkErr # NoError /\ licenseMap = <<>>

(* the name is a list of two or more URLs or holds a conjunction *)
IsExpressionName(name) ==
    \/ IsUrlish(name) /\ Len(SplitUrls(name).urls) >= 2
    \/ ~IsUrlish(name) /\ HasLogicalConjunctionOrPreposition(name)

(* C13: a choice with an id is hashed as ID under the id; else a name that  *)
(* is one URL goes to the url field and the choice is hashed as NAME; else  *)
(* a name that is a list of URLs or holds a conjunction is hashed as        *)
(* EXPRESSION, with or without a url; else the name, or the url when there  *)
(* is no name, is hashed as NAME; a choice with nothing is an error and     *)
(* nothing is hashed                                                        *)
C13_ClassificationOrder ==
    (walkPc = "done" /\ DeclaresOneChoice) =>
        LET choice == bom[1].Licenses[1]
            license == choice.License[1]
        IN  IF choice.License = <<>>
            THEN IF choice.Expression # <<>>
                 THEN HashedAs(LC_TYPE_EXPRESSION, choice.Expression)
                 ELSE NothingHashed
            ELSE IF license.Id # <<>> THEN HashedAs(LC_TYPE_ID, license.Id)
            ELSE IF IsUrlish(license.Name) /\ Len(SplitUrls(license.Name).urls) = 1
            THEN /\ HashedAs(LC_TYPE_NAME, license.Name)
                 /\ licenseMap[1].LicenseChoice.License[1].Url = license.Name
                 /\ licenseMap[1].LicenseChoice.License[1].Name = <<>>
            ELSE IF IsExpressionName(license.Name)
            THEN HashedAs(LC_TYPE_EXPRESSION, license.Name)
            ELSE IF license.Name # <<>> THEN HashedAs(LC_TYPE_NAME, license.Name)
            ELSE IF license.Url # <<>> THEN HashedAs(LC_TYPE_NAME, license.Url)
            ELSE NothingHashed

(***************************************************************************)
(* C14: the order of the license sources                                   *)
(***************************************************************************)
Asked(cdxComponent, source) ==
    \E i \in 1..Len(consulted) :
        consulted[i] = [BOMRef |-> cdxComponent.BOMRef, source |-> source]

AskedRemote(cdxComponent) == Asked(cdxComponent, "maven") \/ Asked(cdxComponent, "p2")

(* the remote service of the component answers with a license *)
RemoteYields(cdxComponent) ==
    /\ cdxComponent.Remote.err = NoError
    /\ \/ cdxComponent.Purl = "maven" /\ cdxComponent.Remote.pomLicenses # <<>>
       \/ cdxComponent.Purl = "p2" /\ cdxComponent.Remote.eclipseLicense # <<>>

(* the entries of the component are those its declared licenses hash to *)
HashedAsDeclared(cdxComponent) ==
    \A i \in EntriesOf(cdxComponent.BOMRef) :
        <<licenseMap[i]>> =
            hashLicenseInfoByLicenseType(
                LicenseInfo(JoinedLicenseChoice(cdxComponent.Licenses),
                            SplitCompositeName(cdxComponent))).entries

(* C14: in every state and for every component: its declared licenses are  *)
(* what is hashed when it declares some, and then no other source is       *)
(* asked; the well-known table is asked only when none is declared, and    *)
(* its answer is what is hashed; a remote service is asked only when none  *)
(* is declared and the table has no answer, and after the table; and when  *)
(* no source yields a license the component is hashed as NOASSERTION       *)
C14_SourceOrder ==
    \A cdxComponent \in AllComponents(bom) :
        LET declared == cdxComponent.Licenses # <<>>
            wellKnown == cdxComponent.WellKnown.type # LC_TYPE_INVALID
            entries == EntriesOf(cdxComponent.BOMRef)
        IN  /\ declared =>
                /\ ~Asked(cdxComponent, "wellknown") /\ ~AskedRemote(cdxComponent)
                /\ HashedAsDeclared(cdxComponent)
            /\ Asked(cdxComponent, "wellknown") => ~declared
            /\ (~declared /\ wellKnown) =>
                /\ ~AskedRemote(cdxComponent)
                /\ \A i \in entries :
                      /\ licenseMap[i].Key = cdxComponent.WellKnown.characteristic
                      /\ licenseMap[i].LicenseChoiceTypeValue = cdxComponent.WellKnown.type
            /\ AskedRemote(cdxComponent) =>
                /\ ~declared /\ ~wellKnown
                /\ \E i, j \in 1..Len(consulted) :
                      /\ i < j
                      /\ consulted[i] = [BOMRef |-> cdxComponent.BOMRef, source |-> "wellknown"]
                      /\ consulted[j].BOMRef = cdxComponent.BOMRef
                      /\ consulted[j].source = IF cdxComponent.Purl = "maven" THEN "maven" ELSE "p2"
            /\ (~declared /\ ~wellKnown /\ ~RemoteYields(cdxComponent)
                   /\ Asked(cdxComponent, "wellknown")) =>
                /\ Cardinality(entries) = 1
                /\ \A i \in entries :
                      /\ licenseMap[i].Key = LICENSE_NO_ASSERTION
                      /\ licenseMap[i].LicenseChoice = ExpressionWith(<<>>)
            /\ (~declared /\ ~wellKnown /\ RemoteYields(cdxComponent)) =>
                \A i \in entries : licenseMap[i].Key # LICENSE_NO_ASSERTION

C14_Witness ==
    /\ walkPc = "done"
    /\ Len(bom) = 2
    /\ bom[1].Licenses = <<IdLicense("MIT")>> /\ bom[1].WellKnown = WellKnownId
    /\ bom[1].Remote = PomFound /\ bom[1].Components = <<>>
    /\ bom[2].Licenses = <<>> /\ bom[2].WellKnown = NoWellKnown
    /\ bom[2].Purl = "maven" /\ bom[2].Remote = RemoteFailed
    /\ consulted = <<[BOMRef |-> <<2>>, source |-> "wellknown"],
                     [BOMRef |-> <<2>>, source |-> "maven"]>>
    /\ Len(licenseMap) = 2
    /\ licenseMap[1].Key = <<"MIT">>
    /\ licenseMap[2].Key = LICENSE_NO_ASSERTION

(***************************************************************************)
(* C15: every component has an entry                                       *)
(***************************************************************************)
(* C15: when loadDocumentLicenses has returned without error, every        *)
(* component of the document, at any depth, has at least one entry in the  *)
(* license map                                                             *)
C15_EveryComponentHashed ==
    (walkPc = "done" /\ walkErr = NoError) =>
        \A cdxComponent \in AllComponents(bom) : EntriesOf(cdxComponent.BOMRef) # {}

(***************************************************************************)
(* C16: errors of one component                                            *)
(***************************************************************************)
(* the licenses found for the component cannot be hashed *)
CannotBeHashed(cdxComponent) ==
    LET c == SplitCompositeName(cdxComponent)
    IN  /\ FoundLicenses(c) # <<>>
        /\ hashLicenseInfoByLicenseType(
               LicenseInfo(JoinedLicenseChoice(FoundLicenses(c)), c)).err # NoError

(* the remote service asked for the component fails *)
FinderFails(cdxComponent) ==
    /\ DeclaredOrWellKnown(cdxComponent) = <<>>
    /\ cdxComponent.Purl \in {"maven", "p2"}
    /\ cdxComponent.Remote.err # NoError

(* C16: when the walk is over, every component of the document's list that *)
(* follows a component whose finder failed or whose license cannot be      *)
(* hashed has been hashed (unless its own license cannot be hashed)        *)
C16_ErrorDoesNotAbortWalk ==
    walkPc = "done" =>
        \A i \in 1..Len(bom) :
            (/\ \E j \in 1..(i - 1) : FinderFails(bom[j]) \/ CannotBeHashed(bom[j])
             /\ ~CannotBeHashed(bom[i]))
            => EntriesOf(bom[i].BOMRef) # {}

(***************************************************************************)
(* The license finders (cmd/license_finder.go and the Maven, p2 and npm    *)
(* finders).  The cache is a map from cache ids to license choices; the    *)
(* file LoadFile reads is the file SaveFile wrote.                          *)
(***************************************************************************)
(* the components FindLicenses is called for *)
FinderComponents ==
    {[Group |-> "g", Name |-> "a", Version |-> "1"],
     [Group |-> "g", Name |-> "b", Version |-> "1"]}

(* fmt.Sprintf("%s:%s:%s", group, name, version) *)
getComponentLicenseCacheId(cdxComponent) ==
    <<cdxComponent.Group, ":", cdxComponent.Name, ":", cdxComponent.Version>>

(* cache.New: a cache without items *)
NewCache == [items |-> {}]

Found(cache, licenseCacheId) ==
    \E item \in cache.items : item.id = licenseCacheId

Get(cache, licenseCacheId) ==
    (CHOOSE item \in cache.items : item.id = licenseCacheId).value

Set(cache, licenseCacheId, value) ==
    [items |-> {item \in cache.items : item.id # licenseCacheId}
                  \cup {[id |-> licenseCacheId, value |-> value]}]

(* variant: the cache is never read *)
retrieveFromLicenseCache_NeverFound(cache, cdxComponent) ==
    [licenseChoices |-> <<>>, found |-> FALSE]

(* retrieveFromLicenseCache: the choices and whether they were found *)
retrieveFromLicenseCache(cache, cdxComponent) ==
    IF cache # <<>> /\ Found(cache[1], getComponentLicenseCacheId(cdxComponent))
    THEN [licenseChoices |-> Get(cache[1], getComponentLicenseCacheId(cdxComponent)),
          found |-> TRUE]
    ELSE [licenseChoices |-> <<>>, found |-> FALSE]

(* variant: every result is stored, also an empty one *)
storeInLicenseCache_EmptyStored(cache, cdxComponent, licenseChoices) ==
    IF cache # <<>>
    THEN <<Set(cache[1], getComponentLicenseCacheId(cdxComponent), licenseChoices)>>
    ELSE cache

(* storeInLicenseCache: the cache after the call *)
storeInLicenseCache(cache, cdxComponent, licenseChoices) ==
    IF Len(licenseChoices) > 0 /\ cache # <<>>
    THEN <<Set(cache[1], getComponentLicenseCacheId(cdxComponent), licenseChoices)>>
    ELSE cache

(* licenseStringToLicenseChoices *)
licenseStringToLicenseChoices(licenseString) ==
    IF MatchesLicenseExpression(licenseString)
    THEN <<ExpressionWith(licenseString)>>
    ELSE <<LicenseWith(CDXLicense(licenseString, <<>>, <<>>))>>

(* licenseStringsToLicenseChoices: one license choice per license string *)
RECURSIVE licenseStringsToLicenseChoices(_)
licenseStringsToLicenseChoices(licenseStrings) ==
    IF licenseStrings = <<>> THEN <<>>
    ELSE licenseStringToLicenseChoices(Head(licenseStrings))
         \o licenseStringsToLicenseChoices(Tail(licenseStrings))

LicenseRefs == {"LicenseRef-x"}

(* REGEX_LICENSE_REF_EXPRESSION replaced by nothing: a conjunction that is *)
(* not the first word and the LicenseRef after it are dropped              *)
RECURSIVE StripLicenseRefs(_, _)
StripLicenseRefs(text, i) ==
    IF i > Len(text) THEN <<>>
    ELSE IF /\ i > 1 /\ i < Len(text)
            /\ text[i] \in Conjunctions /\ text[i + 1] \in LicenseRefs
    THEN StripLicenseRefs(text, i + 2)
    ELSE <<text[i]>> \o StripLicenseRefs(text, i + 1)

(* extractLicenseFromEclipseLicenseData, from the license string of the    *)
(* approved component (empty when none is approved)                        *)
extractLicenseFromEclipseLicenseData(licenseString) ==
    licenseStringToLicenseChoices(StripLicenseRefs(licenseString, 1))

(* extractLicensesFromPom, from the name and url of every license element *)
RECURSIVE extractLicensesFromPom(_)
extractLicensesFromPom(pomLicenses) ==
    IF pomLicenses = <<>> THEN <<>>
    ELSE <<LicenseWith(CDXLicense(<<>>, Head(pomLicenses).Name, Head(pomLicenses).URL))>>
         \o extractLicensesFromPom(Tail(pomLicenses))

(***************************************************************************)
(* What the remote services answer                                         *)
(***************************************************************************)
(* the license elements of a POM: none, or name and url of each *)
PomLicenses ==
    {<<>>,
     <<[Name |-> <<"MIT">>, URL |-> <<"http://mit">>]>>,
     <<[Name |-> <<"GPL-2.0-only">>, URL |-> <<>>]>>}

(* the license string of the approved component, empty without one *)
EclipseLicenseStrings ==
    {<<>>, <<"MIT">>, <<"MIT", OR, "GPL-2.0-only">>, <<"MIT", OR, "LicenseRef-x">>}

(* the license strings of an npm package info, none without license info *)
NpmLicenseStrings == {<<>>, <<<<"MIT">>>>, <<<<"MIT">>, <<"Apache2">>>>}

MSG_NPM_NO_LICENSE == "package info contains no license information"

(***************************************************************************)
(* The finder as a state machine                                            *)
(***************************************************************************)
Lookup(items, id) ==
    IF \E item \in items : item.id = id
    THEN <<(CHOOSE item \in items : item.id = id).value>>
    ELSE <<>>

(* FindLicenses returns licenseChoices and e after requests remote requests *)
(* and leaves the cache as cache                                            *)
FindLicensesReturns(cdxComponent, licenseChoices, e, requests, cache) ==
    LET id == getComponentLicenseCacheId(cdxComponent)
    IN  /\ licenseCache' = cache
        /\ lastCall' = <<[id |-> id, licenseChoices |-> licenseChoices, err |-> e,
                          requests |-> requests, started |-> licenseCache # <<>>,
                          returnedBefore |-> Lookup(returned, id),
                          carriedBefore |-> Lookup(carried, id)]>>
        /\ returned' =
              IF e = NoError /\ Len(licenseChoices) > 0 /\ licenseCache # <<>>
              THEN {item \in returned : item.id # id}
                      \cup {[id |-> id, value |-> licenseChoices]}
              ELSE returned
        /\ lastOp' = "find"
        /\ UNCHANGED <<finderKind, cacheFile, atShutdown, carried, nonFinderVars>>

(* variant: Startup creates the cache without loading the file *)
Startup_FileNotLoaded ==
    /\ finderKind # "none"
    /\ licenseCache' = <<NewCache>>
    /\ lastCall' = <<>>
    /\ returned' = {}
    /\ carried' = IF lastOp = "shutdown" THEN atShutdown ELSE {}
    /\ lastOp' = "startup"
    /\ UNCHANGED <<finderKind, cacheFile, atShutdown, nonFinderVars>>

Startup ==
    /\ finderKind # "none"
    /\ licenseCache' = <<IF cacheFile # <<>> THEN cacheFile[1] ELSE NewCache>>
    /\ lastCall' = <<>>
    /\ returned' = {}
    /\ carried' = IF lastOp = "shutdown" THEN atShutdown ELSE {}
    /\ lastOp' = "startup"
    /\ UNCHANGED <<finderKind, cacheFile, atShutdown, nonFinderVars>>

Shutdown ==
    /\ finderKind # "none"
    /\ IF licenseCache = <<>>
       THEN /\ atShutdown' = {}
            /\ UNCHANGED cacheFile
       ELSE /\ cacheFile' = <<licenseCache[1]>>
            /\ atShutdown' = returned
    /\ lastOp' = "shutdown"
    /\ UNCHANGED <<finderKind, licenseCache, lastCall, returned, carried, nonFinderVars>>

(* the Maven finder: hops POMs without licenses that name a parent are     *)
(* fetched before the POM that ends the search or the fetch that fails     *)
MavenFindLicenses(cdxComponent) ==
    /\ finderKind = "maven"
    /\ LET cached == retrieveFromLicenseCache(licenseCache, cdxComponent)
       IN  IF cached.found
           THEN FindLicensesReturns(cdxComponent, cached.licenseChoices, NoError, 0,
                                    licenseCache)
           ELSE \E hops \in 0..MaxParents :
                   \/ FindLicensesReturns(cdxComponent, <<>>, MSG_REMOTE_FAILED,
                                          hops + 1, licenseCache)
                   \/ \E pomLicenses \in PomLicenses :
                         LET licenseChoices == extractLicensesFromPom(pomLicenses)
                         IN  FindLicensesReturns(cdxComponent, licenseChoices, NoError,
                                hops + 1,
                                storeInLicenseCache(licenseCache, cdxComponent,
                                                    licenseChoices))

(* variant: a failed request leaves an entry for the component behind *)
P2FindLicenses_FailureCached(cdxComponent) ==
    /\ finderKind = "p2"
    /\ LET cached == retrieveFromLicenseCache(licenseCache, cdxComponent)
       IN  IF cached.found
           THEN FindLicensesReturns(cdxComponent, cached.licenseChoices, NoError, 0,
                                    licenseCache)
           ELSE \/ FindLicensesReturns(cdxComponent, <<>>, MSG_REMOTE_FAILED, 1,
                       storeInLicenseCache(licenseCache, cdxComponent,
                                           licenseStringToLicenseChoices(<<>>)))
                \/ \E licenseString \in EclipseLicenseStrings :
                      LET licenseChoices ==
                              extractLicenseFromEclipseLicenseData(licenseString)
                      IN  FindLicensesReturns(cdxComponent, licenseChoices, NoError, 1,
                             storeInLicenseCache(licenseCache, cdxComponent,
                                                 licenseChoices))

(* the p2 finder *)
P2FindLicenses(cdxComponent) ==
    /\ finderKind = "p2"
    /\ LET cached == retrieveFromLicenseCache(licenseCache, cdxComponent)
       IN  IF cached.found
           THEN FindLicensesReturns(cdxComponent, cached.licenseChoices, NoError, 0,
                                    licenseCache)
           ELSE \/ FindLicensesReturns(cdxComponent, <<>>, MSG_REMOTE_FAILED, 1,
                                       licenseCache)
                \/ \E licenseString \in EclipseLicenseStrings :
                      LET licenseChoices ==
                              extractLicenseFromEclipseLicenseData(licenseString)
                      IN  FindLicensesReturns(cdxComponent, licenseChoices, NoError, 1,
                             storeInLicenseCache(licenseCache, cdxComponent,
                                                 licenseChoices))

(* the npm finder *)
NpmFindLicenses(cdxComponent) ==
    /\ finderKind = "npm"
    /\ LET cached == retrieveFromLicenseCache(licenseCache, cdxComponent)
       IN  IF cached.found
           THEN FindLicensesReturns(cdxComponent, cached.licenseChoices, NoError, 0,
                                    licenseCache)
           ELSE \/ FindLicensesReturns(cdxComponent, <<>>, MSG_REMOTE_FAILED, 1,
                                       licenseCache)
                \/ \E licenseStrings \in NpmLicenseStrings :
                      IF Len(licenseStrings) = 0
                      THEN FindLicensesReturns(cdxComponent, <<>>, MSG_NPM_NO_LICENSE, 1,
                                               licenseCache)
                      ELSE LET licenseChoices ==
                                   licenseStringsToLicenseChoices(licenseStrings)
                           IN  FindLicensesReturns(cdxComponent, licenseChoices,
                                  NoError, 1,
                                  storeInLicenseCache(licenseCache, cdxComponent,
                                                      licenseChoices))

(* a cache file an earlier run saved *)
SavedCache ==
    Set(NewCache, <<"g", ":", "a", ":", "1">>, <<LicenseWith(CDXLicense(<<"MIT">>, <<>>, <<>>))>>)

(* a finder after construction; the cache file of an earlier run may exist *)
FinderInit ==
    /\ finderKind \in {"maven", "p2", "npm"}
    /\ licenseCache = <<>>
    /\ cacheFile \in {<<>>, <<NewCache>>, <<SavedCache>>}
    /\ lastCall = <<>>
    /\ lastOp = "none"
    /\ returned = {}
    /\ atShutdown = {}
    /\ carried = {}
    /\ ParserIdle
    /\ WalkerIdle
    /\ ServiceIdle
    /\ EvaluatorIdle

FinderNext ==
    \/ Startup
    \/ Shutdown
    \/ \E cdxComponent \in FinderComponents : MavenFindLicenses(cdxComponent)
    \/ \E cdxComponent \in FinderComponents : P2FindLicenses(cdxComponent)
    \/ \E cdxComponent \in FinderComponents : NpmFindLicenses(cdxComponent)

FinderSpec == FinderInit /\ [][FinderNext]_finderVars

(***************************************************************************)
(* C17: a result found once is served from the cache                       *)
(***************************************************************************)
(* C17: a FindLicenses call made after Startup for a component for which a *)
(* call since that Startup returned a non-empty result without error sends *)
(* no remote request and returns the same license choices                  *)
C17_SecondCallFromCache ==
    (lastOp = "find" /\ lastCall[1].started /\ lastCall[1].returnedBefore # <<>>) =>
        /\ lastCall[1].requests = 0
        /\ lastCall[1].err = NoError
        /\ lastCall[1].licenseChoices = lastCall[1].returnedBefore[1]

C17_Witness ==
    /\ finderKind = "maven"
    /\ cacheFile = <<>>
    /\ lastOp = "find"
    /\ lastCall[1].started
    /\ lastCall[1].returnedBefore = <<<<LicenseWith(CDXLicense(<<>>, <<"MIT">>, <<"http://mit">>))>>>>
    /\ lastCall[1].requests = 0
    /\ lastCall[1].licenseChoices = lastCall[1].returnedBefore[1]

(***************************************************************************)
(* C18: only non-empty results are cached                                  *)
(***************************************************************************)
FoundNothing(call) ==
    call # <<>> /\ call[1].err = NoError /\ call[1].licenseChoices = <<>>

ValuesNonEmpty(cache) ==
    cache # <<>> => \A item \in cache[1].items : Len(item.value) > 0

Failed(call) ==
    call # <<>> /\ call[1].err # NoError

(* C19: a FindLicenses call that fails returns the error and no license    *)
(* choices and leaves the cache and its file exactly as they were; the     *)
(* next FindLicenses call for the same component sends a remote request    *)
C19_FailureLeavesCacheUnchanged ==
    [][ /\ (lastOp' = "find" /\ Failed(lastCall')) =>
               /\ lastCall'[1].licenseChoices = <<>>
               /\ lastCall'[1].requests > 0
               /\ licenseCache' = licenseCache
               /\ cacheFile' = cacheFile
        /\ (lastOp = "find" /\ Failed(lastCall) /\ lastOp' = "find"
              /\ lastCall'[1].id = lastCall[1].id) =>
               lastCall'[1].requests > 0 ]_finderVars

(* a Maven call that failed while following a parent POM, with another     *)
(* component in the cache                                                  *)
C19_Witness ==
    /\ finderKind = "maven"
    /\ lastOp = "find"
    /\ Failed(lastCall)
    /\ lastCall[1].started
    /\ lastCall[1].requests > 1
    /\ licenseCache[1].items # {}
    /\ ~Found(licenseCache[1], lastCall[1].id)

(***************************************************************************)
(* C20: the cache survives Shutdown and Startup                            *)
(***************************************************************************)
(* C20: a FindLicenses call for a component for which a call of the run    *)
(* that ended with the last Shutdown returned a cached non-empty result,   *)
(* made after the Startup that followed that Shutdown, returns the same    *)
(* license choices and sends no remote request                             *)
C20_CacheSurvivesRestart ==
    (lastOp = "find" /\ lastCall[1].carriedBefore # <<>>) =>
        /\ lastCall[1].requests = 0
        /\ lastCall[1].err = NoError
        /\ lastCall[1].licenseChoices = lastCall[1].carriedBefore[1]

(* the result was fetched in the first run (no earlier file held it) and   *)
(* is answered in the second from the file the Shutdown wrote              *)
C20_Witness ==
    /\ finderKind = "npm"
    /\ lastOp = "find"
    /\ lastCall[1].carriedBefore # <<>>
    /\ lastCall[1].returnedBefore = <<>>
    /\ lastCall[1].requests = 0
    /\ lastCall[1].licenseChoices = lastCall[1].carriedBefore[1]
    /\ cacheFile # <<>>
    /\ Found(cacheFile[1], lastCall[1].id)
    /\ ~Found(SavedCache, lastCall[1].id)

(***************************************************************************)
(* The license finder service                                              *)
(*                                                                         *)
(* A package URL keeps what the finders' regular expressions tell apart:   *)
(* its type, whether a qualifier "type" follows the version and which,     *)
(* and whether the namespace starts with "p2.".                            *)
(***************************************************************************)
(* the finders of LicenseFinderService, in the order of its list *)
ServiceFinders == <<"maven", "p2", "npm">>

MSG_NO_APPLICABLE_FINDER == "no applicable license finder found for component"

Purl(type, p2Namespace, qualifier) ==
    [Type |-> type, P2Namespace |-> p2Namespace, Qualifier |-> qualifier]

(* REGEX_MAVEN_PURL: pkg:maven/, any namespace, no qualifier or type jar,  *)
(* zip or pom                                                              *)
MatchesMavenPurl(purl) ==
    purl.Type = "maven" /\ purl.Qualifier \in {"", "jar", "zip", "pom"}

(* REGEX_P2_PURL: pkg:maven/p2. and an Eclipse type qualifier *)
MatchesP2Purl(purl) ==
    /\ purl.Type = "maven" /\ purl.P2Namespace
    /\ purl.Qualifier \in {"eclipse-plugin", "eclipse-feature", "p2-installable-unit"}

(* REGEX_NPM_PURL: pkg:npm/ without qualifiers *)
MatchesNpmPurl(purl) ==
    purl.Type = "npm" /\ purl.Qualifier = ""

(* IsApplicable: the finder's expression compiles, so no error is returned *)
IsApplicable(finder, cdxComponent) ==
    [applicable |-> CASE finder = "maven" -> MatchesMavenPurl(cdxComponent.Purl)
                      [] finder = "p2" -> MatchesP2Purl(cdxComponent.Purl)
                      [] finder = "npm" -> MatchesNpmPurl(cdxComponent.Purl),
     err |-> NoError]

Outcome(licenseChoices, e, requests, cache) ==
    [licenseChoices |-> licenseChoices, err |-> e, requests |-> requests,
     cache |-> cache]

(* what MavenComponentLicenseFinderData.FindLicenses can return, and the   *)
(* cache it leaves                                                         *)
MavenOutcomes(cache, cdxComponent) ==
    LET cached == retrieveFromLicenseCache(cache, cdxComponent)
    IN  IF cached.found
        THEN {Outcome(cached.licenseChoices, NoError, 0, cache)}
        ELSE {Outcome(<<>>, MSG_REMOTE_FAILED, hops + 1, cache) :
                  hops \in 0..MaxParents}
             \cup {Outcome(extractLicensesFromPom(pair[2]), NoError, pair[1] + 1,
                           storeInLicenseCache(cache, cdxComponent,
                                               extractLicensesFromPom(pair[2]))) :
                      pair \in (0..MaxParents) \X PomLicenses}

(* what P2ComponentLicenseFinderData.FindLicenses can return *)
P2Outcomes(cache, cdxComponent) ==
    LET cached == retrieveFromLicenseCache(cache, cdxComponent)
    IN  IF cached.found
        THEN {Outcome(cached.licenseChoices, NoError, 0, cache)}
        ELSE {Outcome(<<>>, MSG_REMOTE_FAILED, 1, cache)}
             \cup {Outcome(extractLicenseFromEclipseLicenseData(licenseString),
                           NoError, 1,
                           storeInLicenseCache(cache, cdxComponent,
                               extractLicenseFromEclipseLicenseData(licenseString))) :
                      licenseString \in EclipseLicenseStrings}

(* what NpmComponentLicenseFinderData.FindLicenses can return *)
NpmOutcomes(cache, cdxComponent) ==
    LET cached == retrieveFromLicenseCache(cache, cdxComponent)
    IN  IF cached.found
        THEN {Outcome(cached.licenseChoices, NoError, 0, cache)}
        ELSE {Outcome(<<>>, MSG_REMOTE_FAILED, 1, cache)}
             \cup {IF Len(licenseStrings) = 0
                   THEN Outcome(<<>>, MSG_NPM_NO_LICENSE, 1, cache)
                   ELSE Outcome(licenseStringsToLicenseChoices(licenseStrings),
                                NoError, 1,
                                storeInLicenseCache(cache, cdxComponent,
                                    licenseStringsToLicenseChoices(licenseStrings))) :
                      licenseStrings \in NpmLicenseStrings}

FindLicensesOutcomes(finder, cache, cdxComponent) ==
    CASE finder = "maven" -> MavenOutcomes(cache, cdxComponent)
      [] finder = "p2" -> P2Outcomes(cache, cdxComponent)
      [] finder = "npm" -> NpmOutcomes(cache, cdxComponent)

(* variant: an empty result or an error of the applicable finder makes the *)
(* service go on to the next finder                                        *)
RECURSIVE ServiceFindLicensesFrom_FallThrough(_, _, _, _)
ServiceFindLicensesFrom_FallThrough(i, asked, caches, cdxComponent) ==
    IF i > Len(ServiceFinders)
    THEN {[asked |-> asked, called |-> <<>>, found |-> <<>>, caches |-> caches,
           licenseChoices |-> <<>>, err |-> MSG_NO_APPLICABLE_FINDER]}
    ELSE LET finder == ServiceFinders[i]
             isApplicable == IsApplicable(finder, cdxComponent)
         IN  IF isApplicable.err # NoError
             THEN {[asked |-> Append(asked, finder), called |-> <<>>, found |-> <<>>,
                    caches |-> caches,
                    licenseChoices |-> <<>>, err |-> isApplicable.err]}
             ELSE IF isApplicable.applicable
             THEN UNION {IF outcome.err = NoError /\ Len(outcome.licenseChoices) > 0
                         THEN {[asked |-> Append(asked, finder), called |-> <<finder>>,
                                found |-> <<outcome>>,
                                caches |-> [caches EXCEPT ![i] = outcome.cache],
                                licenseChoices |-> outcome.licenseChoices,
                                err |-> outcome.err]}
                         ELSE ServiceFindLicensesFrom_FallThrough(i + 1,
                                  Append(asked, finder),
                                  [caches EXCEPT ![i] = outcome.cache], cdxComponent) :
                            outcome \in FindLicensesOutcomes(finder, caches[i],
                                                             cdxComponent)}
             ELSE ServiceFindLicensesFrom_FallThrough(i + 1, Append(asked, finder),
                                                      caches, cdxComponent)

(* LicenseFinderServiceData.FindLicenses from the i-th finder of the list  *)
(* on: the finders asked, the finder called with what it returned, the     *)
(* caches left, and what the service returns                               *)
RECURSIVE ServiceFindLicensesFrom(_, _, _, _)
ServiceFindLicensesFrom(i, asked, caches, cdxComponent) ==
    IF i > Len(ServiceFinders)
    THEN {[asked |-> asked, called |-> <<>>, found |-> <<>>, caches |-> caches,
           licenseChoices |-> <<>>, err |-> MSG_NO_APPLICABLE_FINDER]}
    ELSE LET finder == ServiceFinders[i]
             isApplicable == IsApplicable(finder, cdxComponent)
         IN  IF isApplicable.err # NoError
             THEN {[asked |-> Append(asked, finder), called |-> <<>>, found |-> <<>>,
                    caches |-> caches,
                    licenseChoices |-> <<>>, err |-> isApplicable.err]}
             ELSE IF isApplicable.applicable
             THEN {[asked |-> Append(asked, finder), called |-> <<finder>>,
                    found |-> <<outcome>>,
                    caches |-> [caches EXCEPT ![i] = outcome.cache],
                    licenseChoices |-> outcome.licenseChoices,
                    err |-> outcome.err] :
                      outcome \in FindLicensesOutcomes(finder, caches[i], cdxComponent)}
             ELSE ServiceFindLicensesFrom(i + 1, Append(asked, finder), caches,
                                          cdxComponent)

(* LicenseFinderServiceData.Startup: every finder's Startup *)
ServiceStartup ==
    /\ serviceFiles # <<>>
    /\ serviceCaches' = [i \in 1..Len(ServiceFinders) |->
                            <<IF serviceFiles[i] # <<>> THEN serviceFiles[i][1]
                              ELSE NewCache>>]
    /\ serviceCall' = <<>>
    /\ UNCHANGED <<serviceFiles, nonServiceVars>>

(* LicenseFinderServiceData.Shutdown: every finder's Shutdown *)
ServiceShutdown ==
    /\ serviceFiles # <<>>
    /\ serviceFiles' = [i \in 1..Len(ServiceFinders) |->
                           IF serviceCaches[i] = <<>> THEN serviceFiles[i]
                           ELSE <<serviceCaches[i][1]>>]
    /\ serviceCall' = <<>>
    /\ UNCHANGED <<serviceCaches, nonServiceVars>>

(* LicenseFinderServiceData.FindLicenses *)
ServiceFindLicenses(cdxComponent) ==
    /\ serviceFiles # <<>>
    /\ \E result \in ServiceFindLicensesFrom(1, <<>>, serviceCaches, cdxComponent) :
          /\ serviceCaches' = result.caches
          /\ serviceCall' = <<[cdxComponent |-> cdxComponent,
                               asked |-> result.asked,
                               called |-> result.called,
                               found |-> result.found,
                               cachesBefore |-> serviceCaches,
                               licenseChoices |-> result.licenseChoices,
                               err |-> result.err]>>
    /\ UNCHANGED <<serviceFiles, nonServiceVars>>

(* the package URLs of the components the service is asked about *)
Purls ==
    {Purl(type, p2Namespace, qualifier) :
        type \in {"maven", "npm", "gem"}, p2Namespace \in BOOLEAN,
        qualifier \in {"", "jar", "eclipse-plugin"}}

ServiceComponents ==
    {[Group |-> "g", Name |-> "a", Version |-> "1", Purl |-> purl] : purl \in Purls}

(* the service after construction: no finder has a cache yet, a cache file *)
(* of an earlier run may exist                                             *)
ServiceInit ==
    /\ serviceCaches = [i \in 1..Len(ServiceFinders) |-> <<>>]
    /\ serviceFiles \in [1..Len(ServiceFinders) -> {<<>>, <<SavedCache>>}]
    /\ serviceCall = <<>>
    /\ ParserIdle
    /\ WalkerIdle
    /\ FinderIdle
    /\ EvaluatorIdle

ServiceNext ==
    \/ ServiceStartup
    \/ ServiceShutdown
    \/ \E cdxComponent \in ServiceComponents : ServiceFindLicenses(cdxComponent)

ServiceSpec == ServiceInit /\ [][ServiceNext]_serviceVars

(***************************************************************************)
(* C21: the service returns the first applicable finder's result           *)
(***************************************************************************)
ApplicableFinders(cdxComponent) ==
    {i \in 1..Len(ServiceFinders) :
        IsApplicable(ServiceFinders[i], cdxComponent).applicable}

FirstApplicable(cdxComponent) ==
    CHOOSE i \in ApplicableFinders(cdxComponent) :
        \A j \in ApplicableFinders(cdxComponent) : i <= j

(* C21: the service asks Maven, p2, npm in this order and stops at the     *)
(* first applicable finder; it calls that finder only and returns its      *)
(* license choices and its error unchanged, also when the result is empty  *)
(* or an error; without an applicable finder it returns an error and no    *)
(* finder is called                                                        *)
C21_FirstApplicableFinderDecides ==
    serviceCall # <<>> =>
        LET call == serviceCall[1]
        IN  IF ApplicableFinders(call.cdxComponent) = {}
            THEN /\ call.asked = ServiceFinders
                 /\ call.called = <<>>
                 /\ call.licenseChoices = <<>>
                 /\ call.err = MSG_NO_APPLICABLE_FINDER
                 /\ serviceCaches = call.cachesBefore
            ELSE LET first == FirstApplicable(call.cdxComponent)
                 IN  /\ call.asked = SubSeq(ServiceFinders, 1, first)
                     /\ call.called = <<ServiceFinders[first]>>
                     /\ call.found[1] \in
                           FindLicensesOutcomes(ServiceFinders[first],
                                                call.cachesBefore[first],
                                                call.cdxComponent)
                     /\ call.licenseChoices = call.found[1].licenseChoices
                     /\ call.err = call.found[1].err
                     /\ \A i \in 1..Len(ServiceFinders) :
                           i # first => serviceCaches[i] = call.cachesBefore[i]

(* the p2 finder, second in the list, is the first applicable one and      *)
(* fails; the npm finder is not asked                                      *)
C21_Witness ==
    /\ serviceCall # <<>>
    /\ serviceCall[1].asked = <<"maven", "p2">>
    /\ serviceCall[1].called = <<"p2">>
    /\ serviceCall[1].err = MSG_REMOTE_FAILED
    /\ serviceCall[1].licenseChoices = <<>>

(***************************************************************************)
(* C22: the POMs one Maven call fetches                                    *)
(***************************************************************************)
(* C22: one FindLicenses call of the Maven finder sends at most            *)
(* MAX_PARENT_PACKAGE_RECURSION_DEPTH requests for POMs                    *)
C22_AtMostFivePomsFetched ==
    (finderKind = "maven" /\ lastOp = "find") =>
        lastCall[1].requests <= MAX_PARENT_PACKAGE_RECURSION_DEPTH

(***************************************************************************)
(* C23: a composite name is split into group and name                      *)
(***************************************************************************)
(* the document is one component without group whose name has a "/"        *)
HasCompositeName ==
    /\ Len(bom) = 1
    /\ bom[1].Group = ""
    /\ Len(bom[1].Name) >= 2

(* C23: a component without group whose name contains "/" is hashed with   *)
(* the part of the name before the first "/" as its group and all that     *)
(* follows the first "/" as its name                                       *)
C23_SplitAtFirstSlash ==
    (HasCompositeName /\ walkPc = "done" /\ walkErr = NoError) =>
        \A i \in 1..Len(licenseMap) :
            /\ licenseMap[i].Group = bom[1].Name[1]
            /\ licenseMap[i].ResourceName = Tail(bom[1].Name)

(***************************************************************************)
(* C24: the tree of a three-operand expression                             *)
(***************************************************************************)
(* L c1 R c2 T over simple symbols *)
IsThreeOperands(toks) ==
    /\ Len(toks) = 5
    /\ IsSymbol(toks[1]) /\ IsConjunction(toks[2]) /\ IsSymbol(toks[3])
    /\ IsConjunction(toks[4]) /\ IsSymbol(toks[5])

TableOf(c, l, r) ==
    CASE c = AND -> AndTable(l, r)
      [] c = OR -> OrTable(l, r)
      [] c = WITH_ -> WithTable(l, r)

(* a node over two simple symbols with its policies evaluated *)
IsEvaluatedPair(node, l, c, r) ==
    /\ node.SimpleLeft = l /\ node.CompoundLeft = <<>>
    /\ node.SimpleRight = r /\ node.CompoundRight = <<>>
    /\ node.Conjunction = c /\ node.SubsequentConjunction = ""
    /\ node.LeftUsagePolicy = findPolicy(l)
    /\ node.RightUsagePolicy = findPolicy(r)
    /\ node.CompoundUsagePolicy = TableOf(c, findPolicy(l), findPolicy(r))

(* ((l c1 r) c2 t) *)
IsLeftFolded(node, l, c1, r, c2, t) ==
    /\ node.SimpleLeft = "" /\ Len(node.CompoundLeft) = 1
    /\ IsEvaluatedPair(node.CompoundLeft[1], l, c1, r)
    /\ node.LeftUsagePolicy = node.CompoundLeft[1].CompoundUsagePolicy
    /\ node.Conjunction = c2 /\ node.SubsequentConjunction = ""
    /\ node.SimpleRight = t /\ node.CompoundRight = <<>>
    /\ node.RightUsagePolicy = findPolicy(t)
    /\ node.CompoundUsagePolicy =
          TableOf(c2, node.LeftUsagePolicy, node.RightUsagePolicy)

(* (l c1 (r c2 t)) *)
IsRightFolded(node, l, c1, r, c2, t) ==
    /\ node.SimpleLeft = l /\ node.CompoundLeft = <<>>
    /\ node.LeftUsagePolicy = findPolicy(l)
    /\ node.Conjunction = c1 /\ node.SubsequentConjunction = ""
    /\ node.SimpleRight = "" /\ Len(node.CompoundRight) = 1
    /\ IsEvaluatedPair(node.CompoundRight[1], r, c2, t)
    /\ node.RightUsagePolicy = node.CompoundRight[1].CompoundUsagePolicy
    /\ node.CompoundUsagePolicy =
          TableOf(c1, node.LeftUsagePolicy, node.RightUsagePolicy)

(* C24: L c1 R c2 T is parsed to ((L c1 R) c2 T) for (c1, c2) among        *)
(* (AND, AND), (AND, OR), (WITH, AND), (WITH, OR), to (L WITH (R OR T))    *)
(* when both are WITH, and to (L c1 (R c2 T)) otherwise; the folded child  *)
(* holds its evaluated policy, the parent holds that policy on the child's *)
(* side, and no subsequent conjunction is left                             *)
C24_ThreeOperandTree ==
    (pc = "done" /\ IsThreeOperands(tokens)) =>
        LET l == tokens[1]
            c1 == ToUpper(tokens[2])
            r == tokens[3]
            c2 == ToUpper(tokens[4])
            t == tokens[5]
        IN  /\ err = NoError
            /\ IF <<c1, c2>> \in {<<AND, AND>>, <<AND, OR>>, <<WITH_, AND>>, <<WITH_, OR>>}
               THEN IsLeftFolded(Result, l, c1, r, c2, t)
               ELSE IF c1 = WITH_ /\ c2 = WITH_
               THEN IsRightFolded(Result, l, WITH_, r, OR, t)
               ELSE IsRightFolded(Result, l, c1, r, c2, t)

C24_Witness ==
    /\ pc = "done"
    /\ tokens = <<"MIT", WITH_, "GPL-2.0-only", WITH_, "MPL-1.0">>
    /\ IsRightFolded(Result, "MIT", WITH_, "GPL-2.0-only", OR, "MPL-1.0")
    /\ Result.CompoundUsagePolicy = POLICY_NEEDS_REVIEW

(***************************************************************************)
(* C25: one operand per side                                               *)
(***************************************************************************)
(* C25: in the tree of a well-formed expression every node has exactly one *)
(* of SimpleLeft and CompoundLeft, and every node with a conjunction has   *)
(* exactly one of SimpleRight and CompoundRight                            *)
C25_OneOperandPerSide ==
    (pc = "done" /\ WellFormed(tokens)) =>
        \A n \in Nodes(Result) :
            /\ (n.SimpleLeft # "") # (n.CompoundLeft # <<>>)
            /\ n.Conjunction # "" =>
                  ((n.SimpleRight # "") # (n.CompoundRight # <<>>))

(***************************************************************************)
(* EvaluateUsagePolicies called on a node of any content                   *)
(***************************************************************************)
(* a conjunction the switch of EvaluateUsagePolicies has no case for *)
UnknownConjunction == "XOR"

(* the nodes EvaluateUsagePolicies is called on: the fields it reads and   *)
(* the CompoundUsagePolicy it may overwrite                                *)
EvaluatedNodes ==
    {[NewCompoundExpression EXCEPT
         !.LeftUsagePolicy = l, !.RightUsagePolicy = r,
         !.Conjunction = c, !.CompoundUsagePolicy = p] :
        l \in Policies, r \in Policies,
        c \in Conjunctions \cup {CONJUNCTION_UNDEFINED, UnknownConjunction},
        p \in Policies}

EvaluatorInit ==
    /\ evalNode \in {<<node>> : node \in EvaluatedNodes}
    /\ evalPrevious = <<>>
    /\ evalErr = NoError
    /\ ParserIdle
    /\ WalkerIdle
    /\ FinderIdle
    /\ ServiceIdle

(* expression.EvaluateUsagePolicies() *)
Evaluate ==
    /\ evalNode # <<>>
    /\ evalPrevious = <<>>
    /\ LET ev == EvaluateUsagePolicies(evalNode[1])
       IN  /\ evalNode' = <<ev.expr>>
           /\ evalErr' = ev.err
    /\ evalPrevious' = <<evalNode[1].CompoundUsagePolicy>>
    /\ UNCHANGED nonEvaluatorVars

EvaluatorNext == Evaluate

EvaluatorSpec == EvaluatorInit /\ [][EvaluatorNext]_evaluatorVars

(***************************************************************************)
(* C26: a node without conjunction                                         *)
(***************************************************************************)
LeftOnly(node) ==
    node.LeftUsagePolicy # POLICY_UNDEFINED /\ node.RightUsagePolicy = POLICY_UNDEFINED

NodesOnStack == UNION {Nodes(stack[i]) : i \in 1..Len(stack)}

(* C27: at every point of every parse the conjunction of every node is     *)
(* AND, OR, WITH or undefined, so EvaluateUsagePolicies returns no error   *)
(* on any of them, and no parse ends with an evaluator error               *)
C27_EvaluatorNeverFails ==
    /\ \A n \in NodesOnStack :
          /\ n.Conjunction \in Conjunctions \cup {CONJUNCTION_UNDEFINED}
          /\ EvaluateUsagePolicies(n).err = NoError
    /\ err # MSG_LICENSE_EXPRESSION_INVALID_CONJUNCTION

(* a parse that evaluated inside FoldAndAppendRight (AND then WITH),       *)
(* inside FoldLeftAndAppendRight (then OR) and at the end of the tokens    *)
C27_Witness ==
    /\ pc = "done"
    /\ tokens = <<"MIT", AND, "GPL-2.0-only", WITH_, "MPL-1.0", OR, "FOO">>
    /\ err = NoError
    /\ Result.Conjunction = OR
    /\ Len(Result.CompoundLeft) = 1
    /\ Len(Result.CompoundLeft[1].CompoundRight) = 1
    /\ Result.CompoundLeft[1].CompoundRight[1].Conjunction = WITH_

(***************************************************************************)
(* C28: an empty license string of the Eclipse service                     *)
(***************************************************************************)
(* a License choice without id, name and url *)
IsBlankLicense(licenseChoice) ==
    /\ licenseChoice.License # <<>>
    /\ licenseChoice.License[1].Id = <<>>
    /\ licenseChoice.License[1].Name = <<>>
    /\ licenseChoice.License[1].Url = <<>>

HasBlankLicense(licenseChoices) ==
    \E i \in 1..Len(licenseChoices) : IsBlankLicense(licenseChoices[i])

(* C28: the p2 finder never returns and never caches a License choice      *)
(* whose id is the empty string: an empty license string gives no license  *)
(* choice and nothing is stored                                            *)
C28_NoBlankLicenseFromP2 ==
    finderKind = "p2" =>
        /\ lastOp = "find" => ~HasBlankLicense(lastCall[1].licenseChoices)
        /\ licenseCache # <<>> =>
              \A item \in licenseCache[1].items : ~HasBlankLicense(item.value)

(***************************************************************************)
(* C29: a failed lookup of a third operand                                 *)
(***************************************************************************)
HasFailingOperand(toks) ==
    \E i \in 1..Len(toks) : toks[i] \in FailingSymbols

(* operand (conjunction operand)* *)
IsFlatExpression(toks) ==
    /\ Len(toks) % 2 = 1
    /\ \A i \in 1..Len(toks) :
          IF i % 2 = 1 THEN toks[i] \in LookupSymbols
          ELSE toks[i] \in Conjunctions

(* C29: a parse of an expression with an operand whose policy lookup fails *)
(* returns an error, wherever the operand stands: first, second, or third  *)
(* and folded                                                              *)
C29_LookupErrorReturned ==
    (pc = "done" /\ IsFlatExpression(tokens) /\ HasFailingOperand(tokens))
        => err # NoError

(***************************************************************************)
(* C30: ParseExpression terminates                                         *)
(***************************************************************************)
LeftParens(toks) ==
    Cardinality({i \in 1..Len(toks) : ToUpper(toks[i]) = LEFT_PARENS})

(* the number of Parse calls open inside the call of ParseExpression *)
Depth == Len(stack) - 1

(* C30 as stated: ParseExpression terminates, the index grows with every   *)
(* iteration of a Parse loop, a Parse call made for a left parenthesis     *)
(* returns an index not smaller than the one it was given, whatever error  *)
(* it returns, and no more calls are open than the token list has left     *)
(* parentheses                                                             *)
C30_EveryReturnedIndexNotSmaller ==
    /\ [][/\ pc' = "parse" => index' > index
          /\ Len(stack') < Len(stack) => index' >= index
          /\ Len(stack') - 1 <= LeftParens(tokens)]_vars
    /\ <>(pc = "done")

(* C30: ParseExpression terminates, the index grows with every iteration   *)
(* of a Parse loop, a Parse call made for a left parenthesis that returns  *)
(* no error returns an index not smaller than the one it was given, one    *)
(* that returns an error ends the parse, and no more calls are open than   *)
(* the token list has left parentheses                                     *)
C30_IndexGrowsDepthBounded ==
    /\ [][/\ pc' = "parse" => index' > index
          /\ (Len(stack') < Len(stack) /\ err' = NoError) => index' >= index
          /\ (Len(stack') < Len(stack) /\ err' # NoError) => pc' = "done"
          /\ Len(stack') - 1 <= LeftParens(tokens)]_vars
    /\ <>(pc = "done")

(* two nested calls are open, as many as there are left parentheses *)
C30_Witness ==
    /\ pc = "parse"
    /\ Depth = 2
    /\ Depth = LeftParens(tokens)

====
